---------------------------- MODULE Spec2Model ----------------------------
(***************************************************************************)
(* A model of the chat fabric: replicas (ChatServer), connection sessions  *)
(* (UserThread), the Coordinator (RedisManager: presence set, presence     *)
(* detail keys, resume tokens, pending lists, pub/sub) and Persistence     *)
(* (DatabaseManager: durable sessions, conversations, messages, groups),    *)
(* and of the scaling controller (ChatAutoscaler).                         *)
(*                                                                         *)
(* Spec          one action per client line handled by a session thread    *)
(*               (from one readline to the next), one per envelope handled *)
(*               by a replica's subscriber thread, one per TTL expiry.     *)
(* SpecPair      Spec with two connections, one on each replica, and a     *)
(*               fair subscriber thread.                                   *)
(* SpecResume    the runs with reconnection: login, RESUME_SESSION, the    *)
(*               ways a session ends, enqueued messages, expiring keys.    *)
(* SpecDisconnect Spec with two connections whose clients may close their  *)
(*               socket, and fair session threads.                         *)
(* SpecPresence  the presence operations of RedisManager at the level of   *)
(*               single Redis commands for the writers.                    *)
(* SpecPending   save_pending_message at the level of single Redis         *)
(*               commands, with concurrent callers.                        *)
(* SpecScaler    the scaling controller (ChatAutoscaler), one action per   *)
(*               iteration of its loop.                                    *)
(* SpecConv      get_or_create_conversation at the level of SQL            *)
(*               statements, with concurrent callers.                      *)
(* SpecGroups    join_group, leave_group and the group queries at the      *)
(*               level of SQL statements, with concurrent callers.         *)
(* SpecShutdown  SpecPair with replicas that may receive SIGTERM.          *)
(* SpecReconnect Spec with connections that may open with RESUME_SESSION.  *)
(* SpecWriters   SpecPresence without the expiry of detail keys.           *)
(* SpecDrain     get_pending_messages at the level of single Redis         *)
(*               commands, beside callers of save_pending_message.         *)
(* SpecWriter    the threads that write and flush lines on the writer of   *)
(*               one session.                                              *)
(* SpecOrder     chat_with_contact statement by statement (save, send,     *)
(*               confirm), with two sending handler threads.               *)
(* SpecMembers   the walk to the group chat and its messages, while users  *)
(*               leave and join the group.                                 *)
(*                                                                         *)
(* A protocol line is a tuple of strings: the line's fields in order, as   *)
(* the f-string that formats it joins them with ":" or "|".                *)
(***************************************************************************)
EXTENDS Integers, Sequences, FiniteSets, TLC

(***************************************************************************)
(* Bounds of the model.                                                    *)
(***************************************************************************)
\* messages persisted in one run (private + broadcast + group)
MaxMsgs == 2
\* client lines handled and presence keys expired in one run of Spec, over all sessions
MaxSteps == 6
\* the same in one run of SpecPair
MaxPairSteps == 7
\* save_pending_message calls in one run of SpecPending
MaxEnq == 103
\* steps in one run of SpecResume: client lines handled, keys expired, messages enqueued
MaxResumeSteps == 5
\* client lines handled and presence keys expired in one run of SpecDisconnect
MaxDisconnectSteps == 5
\* save_pending_message calls in one run of SpecResume
MaxPend == 2
\* save_pending_message calls and get_pending_messages calls in one run of SpecDrain
MaxDrainEnq == 3
MaxDrainCalls == 3
\* messages sent in one run of SpecOrder
MaxOrderMsgs == 3
\* lines written to the writer in one run of SpecWriter
MaxWrites == 6
\* client lines handled and database calls on the group started in one run of SpecMembers
MaxMemberSteps == 6
\* database calls on the group in one run of SpecGroups
MaxGroupCalls == 5
\* calls of get_or_create_conversation in one run of SpecConv
MaxConvCalls == 4
\* client lines handled and presence keys expired in one run of SpecReconnect
MaxReconnectSteps == 5
\* client lines handled and presence keys expired in one run of SpecShutdown
MaxShutdownSteps == 5
\* seconds of one run of SpecScaler: run() starts no iteration after them
MaxClock == 80

(***************************************************************************)
(* Program constants.                                                      *)
(***************************************************************************)
\* the "limit=50" of the history queries
HistoryLimit == 50
\* the cap of a pending list
PendingCap == 100
\* seconds to live: session:<token> and user_session:<username>, online_user:<username>,
\* pending_messages:<username>
SessionTtl == 3600
PresenceTtl == 1800
PendingTtl == 3600
\* the scaling parameters of ChatAutoscaler when the environment does not set them
MinReplicasDefault == 1
MaxReplicasDefault == 10
UsersPerPodDefault == 3
CheckIntervalDefault == 10
ScaleDownDelayDefault == 60

(***************************************************************************)
(* The population: registered users, replicas, client connections.         *)
(***************************************************************************)
Users == {"alice", "bob", "carol"}
\* users.user_id
UserId == [u \in Users |-> CASE u = "alice" -> 1 [] u = "bob" -> 2 [] OTHER -> 3]
\* ChatServer.server_id of the running replicas
Replicas == {"rA", "rB"}
\* the client connections a run accepts ...
Sessions == {1, 2, 3}
\* ... the replica each one is accepted by ...
ReplicaOf == <<"rA", "rB", "rB">>
\* ... and the accounts its client holds the password of
Creds == <<{"alice"}, {"bob"}, {"carol", "alice"}>>
\* the one group of the run: its id, its name
GroupId == 1
GroupName == "G"

\* SpecPresence: the threads that call add_online_user / remove_online_user, and for whom
Writers == {1, 2}
PresUsers == {"alice", "bob"}
\* SpecPending: the threads that call save_pending_message, and for whom
Enqueuers == {1, 2}
\* SpecWriter: the threads that write to the writer of one session: the session's own
\* handler, the handler of another session of the replica (send_to_user), the subscriber
WThreads == {"handler", "peer", "subscriber"}
\* SpecOrder: the handler threads of the sessions in one conversation that send to the
\* same recipient (two connections of the same user)
Senders == {1, 2}
\* SpecDrain: the threads that call get_pending_messages(PendUser)
Drainers == {1, 2}
PendUser == "bob"

NoSession == 0
NoKey == "none"
NoUser == "nobody"
\* message texts a client types
Texts == {"hi"}

\* ChatAutoscaler: the scaling parameters with the environment unset ...
DefaultConfig ==
    [min_replicas |-> MinReplicasDefault, max_replicas |-> MaxReplicasDefault,
     users_per_pod |-> UsersPerPodDefault, check_interval |-> CheckIntervalDefault,
     scale_down_delay |-> ScaleDownDelayDefault]
\* ... and the environments of a run of SpecScaler: unset, a small deployment with a short
\* delay, and one whose MIN_REPLICAS is above its MAX_REPLICAS
Configs ==
    {DefaultConfig,
     [min_replicas |-> 2, max_replicas |-> 4, users_per_pod |-> 2, check_interval |-> 10,
      scale_down_delay |-> 20],
     [min_replicas |-> 3, max_replicas |-> 2, users_per_pod |-> 3, check_interval |-> 10,
      scale_down_delay |-> 20]}
\* the deployment's replica count when the controller starts
StartReplicas == {1, 3}
\* the cardinalities of online_users the controller reads
UserCounts == {0, 2, 4, 7, 31}

\* what readline() returns when the socket is closed: the empty string
Eof == ""
\* the lines a client sends where a command is expected, as readline() returns them
ClientLines == {"bye\n", "\n", "9\n", "back\n"}

\* str.strip() of a line read, for the lines above
Strip(line) ==
    CASE line = "bye\n" -> "bye"
      [] line = "9\n" -> "9"
      [] line = "back\n" -> "back"
      [] line = "\n" -> ""
      [] line = Eof -> ""

VARIABLES
    \* ---- UserThread (one per connection)
    pc,          \* where the session thread waits for its next line
    user,        \* user_name of run(): NoUser until authenticated
    peer,        \* contact_name of chat_with_contact
    conv,        \* conversation_id of chat_with_contact
    members,     \* member_usernames of handle_group_chat
    sessId,      \* UserThread.session_id: the durable session row, 0 when none
    rtoken,      \* UserThread.reconnect_token, 0 when none
    pushed,      \* lines written to the session's writer by other threads
    last,        \* the latest handler step: who, what it wrote, its send_to_user calls
    budget,      \* client lines and key expiries the run has left
    eof,         \* the connections whose client has closed its socket
    \* ---- ChatServer (one per replica)
    local,       \* ChatServer.online_users: username -> session
    inbox,       \* envelopes of chat_messages not yet taken by the replica's listener
    \* ---- RedisManager
    onlineSet,   \* the set online_users
    onlineKey,   \* online_user:<username>: the server_id stored, NoKey when absent
    tokens,      \* session:<token> in the order issued: [username, live]
    userSession, \* user_session:<username>: the token, 0 when absent
    pending,     \* pending_messages:<username>
    \* ---- DatabaseManager
    dbSessions,  \* sessions rows: session_id -> [user, active, ts]
    convs,       \* conversations rows: conversation_id -> <<participant1, participant2>>
    messages,    \* messages rows in commit order
    bcasts,      \* broadcast_messages rows in commit order
    gmsgs,       \* group_messages rows in commit order
    gmembers,    \* group_members rows of the group, ordered by joined_at
    gactive,     \* groups.is_active of the group
    \* ---- SpecPresence: callers of add_online_user / remove_online_user
    wpc,         \* where each caller stands: "idle", "add_sadd" (SET done), "rem_srem" (DELETE done)
    warg,        \* the (username, server_id) of the call in progress
    pret,        \* the latest is_user_online / get_online_usernames call: its result, and the
                 \* users it printed "Cleaning up stale user entry" for
    \* ---- SpecPending: callers of save_pending_message
    epc,         \* where each caller stands: "idle", "expire", "llen", "ltrim"
    elen,        \* list_length of each caller
    enq,         \* messages pushed so far; the n-th message pushed is the number n
    \* ---- ChatAutoscaler (SpecScaler) and the deployment it scales
    config,      \* the scaling parameters __init__ reads from the environment
    replicas,    \* deployment.spec.replicas
    last_scale_down_check, \* ChatAutoscaler.last_scale_down_check: (current, desired) -> time
    clock,       \* time.time(), in seconds since the controller started
    tick,        \* the latest iteration of run(): what it read, computed and patched
    observed,    \* the latest (current, desired) the controller read, and since when it has
                 \* read exactly that on every iteration that could read the deployment
    \* ---- SpecConv: callers of get_or_create_conversation
    getconv,     \* where each caller stands ("idle", "selected"), its arguments, what its
                 \* SELECT fetched (0: no row) and what its latest call returned
    \* ---- SpecGroups: the database calls on the group, one caller per user
    grptx,       \* where each caller's transaction stands ("idle", "deleted", "counted",
                 \* "checked"), its member_count, and the latest call and what it returned
    \* ---- SpecDrain: callers of get_pending_messages(PendUser, clear=True)
    drain,       \* where each caller stands ("idle", "delete"), what its LRANGE fetched, the
                 \* messages its calls returned so far, and how many calls it started
    \* ---- SpecWriter: the threads that write to one session's writer
    wthr,        \* where each thread stands ("idle", "flush": write() done, flush() not yet),
                 \* and for the handler how many lines of its frame are out
    wire,        \* the lines written to the writer, each with the thread that wrote it
    \* ---- SpecOrder: the handlers in chat_with_contact that send to one local recipient
    sthr,        \* where each handler stands ("idle", "send": save done, "confirm": send done),
                 \* its message, what send_to_user returned, the lines it wrote to its sender
    committed,   \* the rows of the conversation in table messages, in commit order
    nmsg         \* client lines read so far; the n-th line read is the message n

chatVars == <<pc, user, peer, conv, members, sessId, rtoken, pushed, last, budget, eof, local, inbox,
              tokens, userSession, dbSessions, convs, messages, bcasts, gmsgs, gmembers, gactive>>
presVars == <<onlineSet, onlineKey>>
presCallVars == <<wpc, warg, pret>>
pendVars == <<pending, epc, elen, enq>>
scalerVars == <<config, replicas, last_scale_down_check, clock, tick, observed>>
\* the variables of the specifications that stand apart from the chat servers
\* the variables of the specifications that follow single commands and statements
stepVars == <<drain, wthr, wire, sthr, committed, nmsg>>
apartVars == <<scalerVars, getconv, grptx, stepVars>>
vars == <<chatVars, presVars, presCallVars, pendVars, apartVars>>


(***************************************************************************)
(* Helpers on sequences.                                                   *)
(***************************************************************************)
Range(q) == {q[i] : i \in DOMAIN q}

\* how many times x occurs in q
Count(q, x) == Cardinality({i \in DOMAIN q : q[i] = x})

\* the last n elements of q (SQL: ORDER BY timestamp DESC LIMIT n, reversed)
LastN(q, n) == IF Len(q) <= n THEN q ELSE SubSeq(q, Len(q) - n + 1, Len(q))

\* LTRIM key 0 n-1: the first n entries stay
TrimToFirst(q, n) == IF Len(q) <= n THEN q ELSE SubSeq(q, 1, n)

\* LTRIM key -n -1: the last n entries stay
TrimToLast(q, n) == LastN(q, n)

\* the orders in which a set can be iterated (SMEMBERS returns no fixed order)
Orders(S) == {q \in [1..Cardinality(S) -> S] : \A i, j \in 1..Cardinality(S) : q[i] = q[j] => i = j}

(***************************************************************************)
(* RedisManager: presence.                                                 *)
(* Each operator takes the set online_users and the detail keys and        *)
(* returns the call's result with the set as the call leaves it.           *)
(***************************************************************************)
\* is_user_online without the SREM of a stale member
IsUserOnlineNoCleanup(u, oset, okey) ==
    [ret |-> u \in oset /\ okey[u] # NoKey, oset |-> oset]

\* is_user_online(username)
IsUserOnline(u, oset, okey) ==
    IF u \notin oset THEN [ret |-> FALSE, oset |-> oset]
    ELSE IF okey[u] = NoKey THEN [ret |-> FALSE, oset |-> oset \ {u}]
    ELSE [ret |-> TRUE, oset |-> oset]

\* get_online_usernames that trusts the set alone
GetOnlineUsernamesNoCheck(oset, okey) ==
    [ret |-> oset, oset |-> oset]

\* get_online_usernames(): the members whose detail key exists; the others are removed
GetOnlineUsernames(oset, okey) ==
    [ret |-> {u \in oset : okey[u] # NoKey}, oset |-> {u \in oset : okey[u] # NoKey}]

(***************************************************************************)
(* ChatServer.send_to_user.                                                *)
(* st = [oset, pushed, inbox, calls]: the state a handler step threads     *)
(* through its send_to_user calls; calls logs [target, msg, ret] of each.  *)
(* pubOk: whether redis_client.publish returns (TRUE) or raises (FALSE).   *)
(***************************************************************************)
Envelope(r, t, msg) == [target_username |-> t, message |-> msg, sender_server_id |-> r]

\* publish_message("chat_messages", env): every subscribed listener gets a copy
Publish(env, ibx) == [q \in Replicas |-> Append(ibx[q], env)]

Logged(st, t, msg, ret) == [st EXCEPT !.calls = Append(@, [target |-> t, msg |-> msg, ret |-> ret])]

\* send_to_user that looks in the local map before asking the Coordinator
SendToUserLocalFirst(r, t, msg, pubOk, st) ==
    IF local[r][t] # NoSession
    THEN Logged([st EXCEPT !.pushed[local[r][t]] = Append(@, msg)], t, msg, TRUE)
    ELSE LET on == IsUserOnline(t, st.oset, onlineKey) IN
         IF ~on.ret THEN Logged([st EXCEPT !.oset = on.oset], t, msg, FALSE)
         ELSE IF pubOk THEN Logged([st EXCEPT !.inbox = Publish(Envelope(r, t, msg), @)], t, msg, TRUE)
         ELSE Logged(st, t, msg, FALSE)

\* send_to_user that publishes as well as writing to the local session
SendToUserAlsoPublish(r, t, msg, pubOk, st) ==
    LET on == IsUserOnline(t, st.oset, onlineKey) IN
    IF ~on.ret THEN Logged([st EXCEPT !.oset = on.oset], t, msg, FALSE)
    ELSE IF local[r][t] # NoSession
    THEN Logged([st EXCEPT !.pushed[local[r][t]] = Append(@, msg),
                           !.inbox = Publish(Envelope(r, t, msg), @)], t, msg, TRUE)
    ELSE IF pubOk THEN Logged([st EXCEPT !.inbox = Publish(Envelope(r, t, msg), @)], t, msg, TRUE)
    ELSE Logged(st, t, msg, FALSE)

\* send_to_user that publishes under the name of no replica
SendToUserAnonymous(r, t, msg, pubOk, st) ==
    LET on == IsUserOnline(t, st.oset, onlineKey) IN
    IF ~on.ret THEN Logged([st EXCEPT !.oset = on.oset], t, msg, FALSE)
    ELSE IF local[r][t] # NoSession
    THEN Logged([st EXCEPT !.pushed[local[r][t]] = Append(@, msg)], t, msg, TRUE)
    ELSE IF pubOk THEN Logged([st EXCEPT !.inbox = Publish(Envelope("", t, msg), @)], t, msg, TRUE)
    ELSE Logged(st, t, msg, FALSE)

\* send_to_user(recipient_username, message) on replica r
SendToUser(r, t, msg, pubOk, st) ==
    LET on == IsUserOnline(t, st.oset, onlineKey) IN
    IF ~on.ret THEN Logged([st EXCEPT !.oset = on.oset], t, msg, FALSE)
    ELSE IF local[r][t] # NoSession
    THEN Logged([st EXCEPT !.pushed[local[r][t]] = Append(@, msg)], t, msg, TRUE)
    ELSE IF pubOk THEN Logged([st EXCEPT !.inbox = Publish(Envelope(r, t, msg), @)], t, msg, TRUE)
    ELSE Logged(st, t, msg, FALSE)

\* the loop without its "if recipient != user_name"
RECURSIVE SendAllToEveryone(_, _, _, _, _, _)
SendAllToEveryone(r, sender, recips, msg, failed, st) ==
    IF recips = <<>> THEN st
    ELSE SendAllToEveryone(r, sender, Tail(recips), msg, failed,
                           SendToUser(r, Head(recips), msg, Head(recips) \notin failed, st))

\* the loop "for recipient in ...: if recipient != user_name: send_to_user(recipient, msg)"
\* over the recipients in order; failed: the recipients whose publish raises
RECURSIVE SendAll(_, _, _, _, _, _)
SendAll(r, sender, recips, msg, failed, st) ==
    IF recips = <<>> THEN st
    ELSE IF Head(recips) = sender THEN SendAll(r, sender, Tail(recips), msg, failed, st)
    ELSE SendAll(r, sender, Tail(recips), msg, failed,
                 SendToUser(r, Head(recips), msg, Head(recips) \notin failed, st))

\* the state a handler step starts its send_to_user calls from
SendState == [oset |-> onlineSet, pushed |-> pushed, inbox |-> inbox, calls |-> <<>>]

(***************************************************************************)
(* The subscriber loop of _start_message_listener.                         *)
(***************************************************************************)
\* a listener that relays the replica's own envelopes too
DeliversHereNoSenderCheck(r, env) == local[r][env.target_username] # NoSession

\* the test of line 65: the target is connected to this replica and another replica published
DeliversHere(r, env) ==
    local[r][env.target_username] # NoSession /\ env.sender_server_id # r

(***************************************************************************)
(* DatabaseManager.                                                        *)
(***************************************************************************)
\* get_all_users(): the usernames ORDER BY username
AllUsers == <<"alice", "bob", "carol">>

\* get_all_users(exclude_user_id)
RECURSIVE Without(_, _)
Without(q, u) ==
    IF q = <<>> THEN <<>>
    ELSE IF Head(q) = u THEN Without(Tail(q), u)
    ELSE <<Head(q)>> \o Without(Tail(q), u)

\* a pair kept in the order the caller gave it
CallerOrderPair(a, b) == <<a, b>>

\* the canonical pair of get_or_create_conversation: participant1_id = min, participant2_id = max
CanonicalPair(a, b) == <<IF a < b THEN a ELSE b, IF a < b THEN b ELSE a>>

\* get_or_create_conversation(user1_id, user2_id): [id, convs]
GetOrCreateConversation(a, b, cv) ==
    LET pair == CanonicalPair(a, b)
        found == {i \in DOMAIN cv : cv[i] = pair}
    IN IF found # {}
       THEN [id |-> CHOOSE i \in found : \A j \in found : i <= j, convs |-> cv]
       ELSE [id |-> Len(cv) + 1, convs |-> Append(cv, pair)]

\* the rows of a table that belong to conversation c, in commit order
RECURSIVE RowsOfConv(_, _)
RowsOfConv(rows, c) ==
    IF rows = <<>> THEN <<>>
    ELSE IF Head(rows).conv = c THEN <<Head(rows)>> \o RowsOfConv(Tail(rows), c)
    ELSE RowsOfConv(Tail(rows), c)

\* get_conversation_messages(conversation_id, limit=50): the newest 50, oldest first
GetConversationMessages(c, rows) == LastN(RowsOfConv(rows, c), HistoryLimit)

\* get_broadcast_messages(limit=50), get_group_messages(group_id, limit=50)
GetRecent(rows) == LastN(rows, HistoryLimit)

\* the rows of the three message tables
Persisted == Len(messages) + Len(bcasts) + Len(gmsgs)

\* CURRENT_TIMESTAMP of the next insert: rows are stamped in commit order
Now == Len(dbSessions) + Persisted + 1

\* is_group_member(group_id, user_id)
IsGroupMember(u) == \E i \in DOMAIN gmembers : gmembers[i] = u

(***************************************************************************)
(* The lines a session writes.                                             *)
(***************************************************************************)
\* "[<timestamp>] <sender>: <text>"
HistoryLine(row) == <<"[" \o ToString(row.ts) \o "]", row.sender, row.text>>

RECURSIVE HistoryLines(_)
HistoryLines(rows) ==
    IF rows = <<>> THEN <<>> ELSE <<HistoryLine(Head(rows))>> \o HistoryLines(Tail(rows))

\* send_main_menu()
MainMenu == << <<"MAIN_MENU_START">>, <<"MAIN_MENU_END">> >>

\* the "<username>|<status>" lines of send_contact_list
RECURSIVE ContactLines(_, _)
ContactLines(names, online) ==
    IF names = <<>> THEN <<>>
    ELSE << <<Head(names), IF Head(names) \in online THEN "online" ELSE "offline">> >>
         \o ContactLines(Tail(names), online)

\* send_contact_list() of a session of user u, given what get_online_usernames returned
ContactList(u, online) ==
    << <<"CONTACT_LIST_START">>, <<"BROADCAST", "broadcast">> >>
    \o ContactLines(Without(AllUsers, u), online)
    \o << <<"CONTACT_LIST_END">> >>

\* send_conversation_history(conversation_id, contact_name)
ConversationHistory(c, contact, rows) ==
    << <<"CONVERSATION_START", contact>> >>
    \o HistoryLines(GetConversationMessages(c, rows))
    \o << <<"CONVERSATION_READY">> >>

\* send_broadcast_history()
BroadcastHistory ==
    << <<"BROADCAST_START", "BROADCAST CHANNEL">> >>
    \o HistoryLines(GetRecent(bcasts))
    \o << <<"CONVERSATION_READY">> >>

\* send_group_history(group_id, group_name)
GroupHistory ==
    << <<"GROUP_CHAT_START", GroupName, ToString(GroupId)>> >>
    \o HistoryLines(GetRecent(gmsgs))
    \o << <<"GROUP_CHAT_READY">> >>

\* the listing of handle_my_groups for a member: one line per group of the user, the last
\* field the badge of the role (a crown for the admin, who created the group)
MyGroups(u) ==
    << <<"MY_GROUPS_START">> >>
    \o (IF gactive /\ IsGroupMember(u)
        THEN << <<ToString(GroupId), GroupName, "No description", ToString(Len(gmembers)),
                  IF gmembers[1] = u THEN "(crown)" ELSE "(bust)">> >>
        ELSE << <<"NO_GROUPS", "You are not a member of any groups yet.">> >>)
    \o << <<"MY_GROUPS_END">> >>

MessageLine(from, text) == <<"MESSAGE", from, text>>
BroadcastLine(from, text, ts) == <<"BROADCAST", from, text, ToString(ts)>>
GroupMessageLine(from, text) == <<"GROUP_MESSAGE", GroupName, from, text>>
SentDelivered == <<"SENT", "Message delivered">>
SentSaved == <<"SENT", "Message saved (recipient offline)">>
GroupSent == <<"GROUP_SENT", "Message sent to group">>
BroadcastSent(m, n) ==
    <<"BROADCAST_SENT", "Broadcast sent to " \o ToString(m) \o " online users (of " \o ToString(n) \o " total)">>

(***************************************************************************)
(* Initial state: the replicas run, nobody is connected; the three users   *)
(* are registered and are the members of the group (alice created it).     *)
(***************************************************************************)
NoStep == [s |-> NoSession, op |-> "none", lines |-> <<>>, calls |-> <<>>]

InitChat ==
    /\ pc = [s \in Sessions |-> "Idle"]
    /\ user = [s \in Sessions |-> NoUser]
    /\ peer = [s \in Sessions |-> NoUser]
    /\ conv = [s \in Sessions |-> 0]
    /\ members = [s \in Sessions |-> <<>>]
    /\ sessId = [s \in Sessions |-> 0]
    /\ rtoken = [s \in Sessions |-> 0]
    /\ pushed = [s \in Sessions |-> <<>>]
    /\ last = NoStep
    /\ eof = {}
    /\ local = [r \in Replicas |-> [u \in Users |-> NoSession]]
    /\ inbox = [r \in Replicas |-> <<>>]
    /\ tokens = <<>>
    /\ userSession = [u \in Users |-> 0]
    /\ dbSessions = <<>>
    /\ convs = <<>>
    /\ messages = <<>>
    /\ bcasts = <<>>
    /\ gmsgs = <<>>
    /\ gmembers = <<"alice", "bob", "carol">>
    /\ gactive = TRUE

InitPresence ==
    /\ onlineSet = {}
    /\ onlineKey = [u \in Users |-> NoKey]

NoArg == [u |-> NoUser, r |-> NoKey]

InitPresCalls ==
    /\ wpc = [w \in Writers |-> "idle"]
    /\ warg = [w \in Writers |-> NoArg]
    /\ pret = [op |-> "none", arg |-> NoUser, ret |-> FALSE, names |-> {}, cleaned |-> {}]

InitPending ==
    /\ pending = [u \in Users |-> <<>>]
    /\ epc = [e \in Enqueuers |-> "idle"]
    /\ elen = [e \in Enqueuers |-> 0]
    /\ enq = 0

\* get_current_replicas when the read fails; no patch in an iteration
None == -1
\* last_scale_down_check = {}
NoChecks == [k \in {} |-> 0]
\* before the first iteration of run()
NoTick == [users |-> 0, users_ok |-> TRUE, current |-> None, desired |-> None, patch |-> None,
           ok |-> TRUE]

\* no call of get_or_create_conversation made yet
NoCall == [pc |-> "idle", args |-> <<0, 0>>, result |-> 0, ret |-> 0]

\* no call on the group made yet
NoTx == [pc |-> "idle", count |-> 0, op |-> "none", ret |-> "none"]

\* ChatAutoscaler.__init__ with the environment unset, at the start of run(); no database
\* call in progress
NoDrain == [pc |-> "idle", got |-> <<>>, ret |-> <<>>, calls |-> 0]

InitStep ==
    /\ drain = [d \in Drainers |-> NoDrain]
    /\ wthr = [t \in WThreads |-> [pc |-> "idle", done |-> 0]]
    /\ wire = <<>>
    /\ sthr = [t \in Senders |-> [pc |-> "idle", msg |-> 0, delivered |-> FALSE, out |-> <<>>]]
    /\ committed = <<>>
    /\ nmsg = 0

InitApart ==
    /\ InitStep
    /\ config = DefaultConfig
    /\ replicas = DefaultConfig.min_replicas
    /\ last_scale_down_check = NoChecks
    /\ clock = 0
    /\ tick = NoTick
    /\ observed = [current |-> None, desired |-> None, since |-> 0]
    /\ getconv = [s \in Sessions |-> NoCall]
    /\ grptx = [u \in Users |-> NoTx]

Init ==
    InitChat /\ budget = MaxSteps /\ InitPresence /\ InitPresCalls /\ InitPending /\ InitApart

\* what a step of a session thread leaves alone besides what it names
OtherSpecsUnchanged == UNCHANGED <<presCallVars, pendVars, eof, apartVars>>

\* one more client line is read, or one more key expires
Tick == budget > 0 /\ budget' = budget - 1

Step(s, op, lines, calls) == [s |-> s, op |-> op, lines |-> lines, calls |-> calls]

(***************************************************************************)
(* Auth: the client sends LOGIN, then a username and a password.           *)
(* handle_login, then (on success) run() registers the user with           *)
(* ChatServer.add_online_user and sends the main menu.  The first attempt  *)
(* of a connection starts with ChatServer.execute accepting it and         *)
(* authenticate_user sending AUTH_REQUEST.                                 *)
(***************************************************************************)
AuthRequest(s) == IF pc[s] = "Idle" THEN << <<"AUTH_REQUEST">> >> ELSE <<>>

\* add_online_user that keeps the session already registered under the name
AddOnlineUserKeepFirst(r, u, s) ==
    IF local[r][u] # NoSession THEN local ELSE [local EXCEPT ![r][u] = s]

\* add_online_user, the local cache: self.online_users[username] = user_thread
AddOnlineUserLocal(r, u, s) == [local EXCEPT ![r][u] = s]

Login(s, u, passwordOk) ==
    /\ pc[s] \in {"Idle", "Auth"}
    /\ LET r == ReplicaOf[s]
        tok == Len(tokens) + 1
       IN IF passwordOk
          THEN /\ user' = [user EXCEPT ![s] = u]
               \* db_manager.create_session(user_id)
               /\ dbSessions' = Append(dbSessions, [user |-> u, active |-> TRUE, ts |-> Now])
               /\ sessId' = [sessId EXCEPT ![s] = Len(dbSessions) + 1]
               \* redis_manager.create_session(username, user_id)
               /\ tokens' = Append(tokens, [username |-> u, live |-> TRUE])
               /\ userSession' = [userSession EXCEPT ![u] = tok]
               /\ rtoken' = [rtoken EXCEPT ![s] = tok]
               \* server.add_online_user(user_name, self)
               /\ local' = AddOnlineUserLocal(r, u, s)
               /\ onlineKey' = [onlineKey EXCEPT ![u] = r]
               /\ onlineSet' = onlineSet \cup {u}
               /\ pc' = [pc EXCEPT ![s] = "Menu"]
               /\ last' = Step(s, "login",
                               AuthRequest(s) \o
                               << <<"LOGIN_PROMPT">>, <<"AUTH_SUCCESS", "Login successful">>,
                                  <<"SESSION_TOKEN", ToString(tok)>> >> \o MainMenu, <<>>)
          ELSE /\ pc' = [pc EXCEPT ![s] = "Auth"]
               /\ last' = Step(s, "login",
                               AuthRequest(s) \o
                               << <<"LOGIN_PROMPT">>,
                                  <<"AUTH_FAILED", "Invalid username or password">> >>, <<>>)
               /\ UNCHANGED <<user, dbSessions, sessId, tokens, userSession, rtoken, local>>
               /\ UNCHANGED presVars
    /\ UNCHANGED <<peer, conv, members, pushed, inbox, convs, messages, bcasts, gmsgs, gmembers, gactive>>
    /\ Tick /\ OtherSpecsUnchanged

\* what made a thread leave its loop: the socket at EOF, a blank line, or the word "bye"
Ending(line) == IF line = Eof THEN "eof" ELSE IF Strip(line) = "" THEN "blank" ELSE "bye"

\* Auth: "if not auth_choice: return None" (the socket is closed, or the client sent a
\* blank line): run() closes the socket
AuthEof(s, line) ==
    /\ pc[s] \in {"Idle", "Auth"}
    /\ Strip(line) = ""
    /\ pc' = [pc EXCEPT ![s] = "Closed"]
    /\ last' = Step(s, Ending(line), AuthRequest(s), <<>>)
    /\ UNCHANGED <<user, peer, conv, members, sessId, rtoken, pushed, local, inbox, tokens,
                   userSession, dbSessions, convs, messages, bcasts, gmsgs, gmembers, gactive>>
    /\ UNCHANGED presVars
    /\ Tick /\ OtherSpecsUnchanged

(***************************************************************************)
(* The finally block of run(): ChatServer.remove_user and end_session.     *)
(***************************************************************************)
\* a remove_user that leaves the local map as it is
KeepUserLocal(r, u) == local

\* remove_user(username, user_thread) on replica r: the local map after it
RemoveUserLocal(r, u) == [local EXCEPT ![r][u] = NoSession]

Cleanup(s) ==
    /\ local' = RemoveUserLocal(ReplicaOf[s], user[s])
    \* redis_manager.remove_online_user(username)
    /\ onlineKey' = [onlineKey EXCEPT ![user[s]] = NoKey]
    /\ onlineSet' = onlineSet \ {user[s]}
    \* db_manager.end_session(self.session_id)
    /\ dbSessions' = IF sessId[s] # 0 THEN [dbSessions EXCEPT ![sessId[s]].active = FALSE]
                     ELSE dbSessions
    /\ pc' = [pc EXCEPT ![s] = "Closed"]

(***************************************************************************)
(* Menu: the main loop of run().  Each action is one client line and what  *)
(* the thread does until its next readline.                                *)
(***************************************************************************)
\* what no step of the session layer changes
StoreUnchanged == UNCHANGED <<tokens, userSession, gmembers, gactive>>

\* "1": handle_private_messages sends the contact list
MenuPrivate(s) ==
    /\ pc[s] = "Menu"
    /\ LET lst == GetOnlineUsernames(onlineSet, onlineKey) IN
       /\ onlineSet' = lst.oset
       /\ last' = Step(s, "contacts", ContactList(user[s], lst.ret), <<>>)
    /\ pc' = [pc EXCEPT ![s] = "Contacts"]
    /\ UNCHANGED <<user, peer, conv, members, sessId, rtoken, pushed, local, inbox,
                   dbSessions, convs, messages, bcasts, gmsgs, onlineKey>>
    /\ Tick /\ StoreUnchanged /\ OtherSpecsUnchanged

\* "2" in the menu, or "BROADCAST" in the contact selection:
\* handle_broadcast_chat sends the broadcast history
MenuBroadcast(s) ==
    /\ pc[s] \in {"Menu", "Contacts"}
    /\ pc' = [pc EXCEPT ![s] = "Broadcast"]
    /\ last' = Step(s, "open_broadcast", BroadcastHistory, <<>>)
    /\ UNCHANGED <<user, peer, conv, members, sessId, rtoken, pushed, local, inbox,
                   dbSessions, convs, messages, bcasts, gmsgs>>
    /\ UNCHANGED presVars
    /\ Tick /\ StoreUnchanged /\ OtherSpecsUnchanged

\* "3": handle_my_groups lists the user's groups
MenuMyGroups(s) ==
    /\ pc[s] = "Menu"
    /\ pc' = [pc EXCEPT ![s] = IF gactive /\ IsGroupMember(user[s]) THEN "MyGroups" ELSE "NoGroups"]
    /\ last' = Step(s, "my_groups", MyGroups(user[s]), <<>>)
    /\ UNCHANGED <<user, peer, conv, members, sessId, rtoken, pushed, local, inbox,
                   dbSessions, convs, messages, bcasts, gmsgs>>
    /\ UNCHANGED presVars
    /\ Tick /\ StoreUnchanged /\ OtherSpecsUnchanged

\* a chain that leaves the loop on "back" too
MenuBranchBackQuits(choice) ==
    CASE choice = "1" -> "private"
      [] choice = "2" -> "broadcast"
      [] choice = "3" -> "my_groups"
      [] choice = "4" -> "browse"
      [] choice = "5" -> "create"
      [] choice \in {"bye", "", "back"} -> "quit"
      [] OTHER -> "invalid"

\* the if/elif chain of the main loop over menu_choice = readline().strip()
MenuBranch(choice) ==
    CASE choice = "1" -> "private"
      [] choice = "2" -> "broadcast"
      [] choice = "3" -> "my_groups"
      [] choice = "4" -> "browse"
      [] choice = "5" -> "create"
      [] choice = "bye" -> "quit"
      [] choice = "" -> "quit"
      [] OTHER -> "invalid"

\* "bye", or "" (a blank line, or the socket at EOF): the loop breaks, the finally block runs
MenuQuit(s, line) ==
    /\ pc[s] = "Menu"
    /\ MenuBranch(Strip(line)) = "quit"
    /\ Cleanup(s)
    /\ last' = Step(s, Ending(line), <<>>, <<>>)
    /\ UNCHANGED <<user, peer, conv, members, sessId, rtoken, pushed, inbox,
                   convs, messages, bcasts, gmsgs>>
    /\ Tick /\ StoreUnchanged /\ OtherSpecsUnchanged

\* any other line
MenuInvalid(s, line) ==
    /\ pc[s] = "Menu"
    /\ MenuBranch(Strip(line)) = "invalid"
    /\ last' = Step(s, "invalid", << <<"INVALID_OPTION", "Invalid menu option">> >> \o MainMenu, <<>>)
    /\ UNCHANGED <<pc, user, peer, conv, members, sessId, rtoken, pushed, local, inbox,
                   dbSessions, convs, messages, bcasts, gmsgs>>
    /\ UNCHANGED presVars
    /\ Tick /\ StoreUnchanged /\ OtherSpecsUnchanged

(***************************************************************************)
(* Contacts: the loop of handle_private_messages.                          *)
(***************************************************************************)
\* "back" or "": return to the main menu
ContactsBack(s) ==
    /\ pc[s] = "Contacts"
    /\ pc' = [pc EXCEPT ![s] = "Menu"]
    /\ last' = Step(s, "menu", MainMenu, <<>>)
    /\ UNCHANGED <<user, peer, conv, members, sessId, rtoken, pushed, local, inbox,
                   dbSessions, convs, messages, bcasts, gmsgs>>
    /\ UNCHANGED presVars
    /\ Tick /\ StoreUnchanged /\ OtherSpecsUnchanged

\* a name: looked up in get_all_users(); found: the conversation is opened and replayed
ContactsSelect(s, name) ==
    /\ pc[s] = "Contacts"
    /\ IF name \in Users
       THEN LET gc == GetOrCreateConversation(UserId[user[s]], UserId[name], convs) IN
            /\ convs' = gc.convs
            /\ conv' = [conv EXCEPT ![s] = gc.id]
            /\ peer' = [peer EXCEPT ![s] = name]
            /\ pc' = [pc EXCEPT ![s] = "PrivateChat"]
            /\ last' = Step(s, "open_private", ConversationHistory(gc.id, name, messages), <<>>)
            /\ UNCHANGED onlineSet
       ELSE LET lst == GetOnlineUsernames(onlineSet, onlineKey) IN
            /\ onlineSet' = lst.oset
            /\ last' = Step(s, "contacts",
                            << <<"CONTACT_NOT_FOUND", "Contact not found">> >>
                            \o ContactList(user[s], lst.ret), <<>>)
            /\ UNCHANGED <<convs, conv, peer, pc>>
    /\ UNCHANGED <<user, members, sessId, rtoken, pushed, local, inbox,
                   dbSessions, messages, bcasts, gmsgs, onlineKey>>
    /\ Tick /\ StoreUnchanged /\ OtherSpecsUnchanged

(***************************************************************************)
(* PrivateChat: the loop of chat_with_contact.                             *)
(***************************************************************************)
\* "back" or "": back to the contact selection, which sends the contact list again
PrivateBack(s) ==
    /\ pc[s] = "PrivateChat"
    /\ LET lst == GetOnlineUsernames(onlineSet, onlineKey) IN
       /\ onlineSet' = lst.oset
       /\ last' = Step(s, "contacts", ContactList(user[s], lst.ret), <<>>)
    /\ pc' = [pc EXCEPT ![s] = "Contacts"]
    /\ UNCHANGED <<user, peer, conv, members, sessId, rtoken, pushed, local, inbox,
                   dbSessions, convs, messages, bcasts, gmsgs, onlineKey>>
    /\ Tick /\ StoreUnchanged /\ OtherSpecsUnchanged

\* any other line: save_private_message, send_to_user, the SENT confirmation
PrivateSend(s, text, pubOk) ==
    /\ pc[s] = "PrivateChat"
    /\ Persisted < MaxMsgs
    /\ messages' = Append(messages, [conv |-> conv[s], sender |-> user[s], text |-> text, ts |-> Now])
    /\ LET st == SendToUser(ReplicaOf[s], peer[s], MessageLine(user[s], text), pubOk, SendState) IN
       /\ onlineSet' = st.oset
       /\ pushed' = st.pushed
       /\ inbox' = st.inbox
       /\ last' = Step(s, "private",
                       << IF st.calls[1].ret THEN SentDelivered ELSE SentSaved >>, st.calls)
    /\ UNCHANGED <<pc, user, peer, conv, members, sessId, rtoken, local,
                   dbSessions, convs, bcasts, gmsgs, onlineKey>>
    /\ Tick /\ StoreUnchanged /\ OtherSpecsUnchanged

(***************************************************************************)
(* Broadcast: the loop of handle_broadcast_chat.                           *)
(***************************************************************************)
\* "back" or "": return; from either caller the thread is back in the main loop
BroadcastBack(s) ==
    /\ pc[s] = "Broadcast"
    /\ pc' = [pc EXCEPT ![s] = "Menu"]
    /\ last' = Step(s, "menu", MainMenu, <<>>)
    /\ UNCHANGED <<user, peer, conv, members, sessId, rtoken, pushed, local, inbox,
                   dbSessions, convs, messages, bcasts, gmsgs>>
    /\ UNCHANGED presVars
    /\ Tick /\ StoreUnchanged /\ OtherSpecsUnchanged

\* how many calls of a log returned True
Delivered(calls) == Cardinality({i \in DOMAIN calls : calls[i].ret})

\* any other line: save_broadcast_message, then send_to_user to every online user but the
\* sender, in the order get_online_usernames lists them
BroadcastSend(s, text, failed) ==
    /\ pc[s] = "Broadcast"
    /\ Persisted < MaxMsgs
    /\ bcasts' = Append(bcasts, [sender |-> user[s], text |-> text, ts |-> Now])
    /\ LET lst == GetOnlineUsernames(onlineSet, onlineKey) IN
       /\ failed \subseteq lst.ret \ {user[s]}
       /\ \E order \in Orders(lst.ret) :
          LET st == SendAll(ReplicaOf[s], user[s], order, BroadcastLine(user[s], text, Now),
                            failed, [SendState EXCEPT !.oset = lst.oset]) IN
             /\ onlineSet' = st.oset
             /\ pushed' = st.pushed
             /\ inbox' = st.inbox
             /\ last' = Step(s, "broadcast",
                             << BroadcastSent(Delivered(st.calls), Cardinality(lst.ret) - 1) >>,
                             st.calls)
    /\ UNCHANGED <<pc, user, peer, conv, members, sessId, rtoken, local,
                   dbSessions, convs, messages, gmsgs, onlineKey>>
    /\ Tick /\ StoreUnchanged /\ OtherSpecsUnchanged

(***************************************************************************)
(* MyGroups and GroupChat: handle_my_groups, handle_group_chat.            *)
(***************************************************************************)
\* "back" or "": return to the main menu
MyGroupsBack(s) ==
    /\ pc[s] = "MyGroups"
    /\ pc' = [pc EXCEPT ![s] = "Menu"]
    /\ last' = Step(s, "menu", MainMenu, <<>>)
    /\ UNCHANGED <<user, peer, conv, members, sessId, rtoken, pushed, local, inbox,
                   dbSessions, convs, messages, bcasts, gmsgs>>
    /\ UNCHANGED presVars
    /\ Tick /\ StoreUnchanged /\ OtherSpecsUnchanged

\* the group's id: is_group_member, then handle_group_chat replays the history and
\* reads the member list once; a line that is no number: INVALID_SELECTION and the list again
MyGroupsSelect(s, isId) ==
    /\ pc[s] = "MyGroups"
    /\ IF isId /\ IsGroupMember(user[s]) /\ gactive
       THEN /\ pc' = [pc EXCEPT ![s] = "GroupChat"]
            /\ members' = [members EXCEPT ![s] = gmembers]
            /\ last' = Step(s, "open_group", GroupHistory, <<>>)
       ELSE /\ last' = Step(s, "my_groups",
                            << IF ~isId THEN <<"INVALID_SELECTION", "Please enter a valid group ID">>
                               ELSE IF ~IsGroupMember(user[s])
                               THEN <<"NOT_MEMBER", "You are not a member of this group">>
                               ELSE <<"GROUP_NOT_FOUND", "Group not found">> >>
                            \o MyGroups(user[s]), <<>>)
            /\ UNCHANGED <<pc, members>>
    /\ UNCHANGED <<user, peer, conv, sessId, rtoken, pushed, local, inbox,
                   dbSessions, convs, messages, bcasts, gmsgs>>
    /\ UNCHANGED presVars
    /\ Tick /\ StoreUnchanged /\ OtherSpecsUnchanged

\* "back": return to handle_my_groups, which lists the groups again
GroupBack(s) ==
    /\ pc[s] = "GroupChat"
    /\ pc' = [pc EXCEPT ![s] = IF gactive /\ IsGroupMember(user[s]) THEN "MyGroups" ELSE "NoGroups"]
    /\ last' = Step(s, "my_groups", MyGroups(user[s]), <<>>)
    /\ UNCHANGED <<user, peer, conv, members, sessId, rtoken, pushed, local, inbox,
                   dbSessions, convs, messages, bcasts, gmsgs>>
    /\ UNCHANGED presVars
    /\ Tick /\ StoreUnchanged /\ OtherSpecsUnchanged

\* "" (a blank line, or the socket at EOF): "continue", the loop reads again
GroupBlank(s) ==
    /\ pc[s] = "GroupChat"
    /\ last' = Step(s, "blank", <<>>, <<>>)
    /\ UNCHANGED <<pc, user, peer, conv, members, sessId, rtoken, pushed, local, inbox,
                   dbSessions, convs, messages, bcasts, gmsgs>>
    /\ UNCHANGED presVars
    /\ Tick /\ StoreUnchanged /\ OtherSpecsUnchanged

\* any other line: save_group_message, then send_to_user to every member read at entry
\* but the sender
GroupSend(s, text, failed) ==
    /\ pc[s] = "GroupChat"
    /\ Persisted < MaxMsgs
    /\ failed \subseteq Range(members[s]) \ {user[s]}
    /\ gmsgs' = Append(gmsgs, [sender |-> user[s], text |-> text, ts |-> Now])
    /\ LET st == SendAll(ReplicaOf[s], user[s], members[s], GroupMessageLine(user[s], text),
                         failed, SendState) IN
       /\ onlineSet' = st.oset
       /\ pushed' = st.pushed
       /\ inbox' = st.inbox
       /\ last' = Step(s, "group", << GroupSent >>, st.calls)
    /\ UNCHANGED <<pc, user, peer, conv, members, sessId, rtoken, local,
                   dbSessions, convs, messages, bcasts, onlineKey>>
    /\ Tick /\ StoreUnchanged /\ OtherSpecsUnchanged

(***************************************************************************)
(* The subscriber thread of replica r takes the next envelope.             *)
(***************************************************************************)
Listen(r) ==
    /\ inbox[r] # <<>>
    /\ LET env == Head(inbox[r]) IN
       /\ inbox' = [inbox EXCEPT ![r] = Tail(@)]
       /\ pushed' = IF DeliversHere(r, env)
                    THEN [pushed EXCEPT ![local[r][env.target_username]] = Append(@, env.message)]
                    ELSE pushed
    /\ UNCHANGED <<pc, user, peer, conv, members, sessId, rtoken, last, local,
                   dbSessions, convs, messages, bcasts, gmsgs>>
    /\ UNCHANGED presVars
    /\ UNCHANGED budget /\ StoreUnchanged /\ OtherSpecsUnchanged

(***************************************************************************)
(* The TTL of online_user:<u> (1800 s) runs out: Redis deletes the key.    *)
(***************************************************************************)
ExpireKey(u) ==
    /\ onlineKey[u] # NoKey
    /\ onlineKey' = [onlineKey EXCEPT ![u] = NoKey]

Expire(u) ==
    /\ ExpireKey(u)
    /\ UNCHANGED <<pc, user, peer, conv, members, sessId, rtoken, pushed, last, local, inbox,
                   dbSessions, convs, messages, bcasts, gmsgs, onlineSet>>
    /\ Tick /\ StoreUnchanged /\ OtherSpecsUnchanged

(***************************************************************************)
(* Reconnection: RESUME_SESSION:<token> in Auth (handle_session_resume),   *)
(* then, on success, run() registers the user and sends the main menu.     *)
(***************************************************************************)
NoToken == [username |-> NoUser, live |-> FALSE]

\* get_session that returns the data of an expired token too
GetSessionIgnoreExpiry(tok, tks) == IF tok \in DOMAIN tks THEN tks[tok] ELSE NoToken

\* get_session that finds a token only while the user's presence detail key exists
GetSessionWhileOnline(tok, tks) ==
    IF tok \in DOMAIN tks /\ tks[tok].live /\ onlineKey[tks[tok].username] # NoKey
    THEN tks[tok] ELSE NoToken

\* get_session(session_token): the data under session:<token>, None when there is no such key
GetSession(tok, tks) == IF tok \in DOMAIN tks /\ tks[tok].live THEN tks[tok] ELSE NoToken

\* get_pending_messages(username, clear=False)
GetPendingMessagesNoClear(u, pnd) == [ret |-> pnd[u], pending |-> pnd]

\* get_pending_messages(username, clear=True): LRANGE 0 -1, then DELETE
GetPendingMessages(u, pnd) == [ret |-> pnd[u], pending |-> [pnd EXCEPT ![u] = <<>>]]

\* "PENDING_MSG:<content>" for each message, in list order
RECURSIVE PendingLines(_)
PendingLines(msgs) ==
    IF msgs = <<>> THEN <<>>
    ELSE << <<"PENDING_MSG", Head(msgs).content>> >> \o PendingLines(Tail(msgs))

\* a block that is left out when there is nothing pending
PendingBlockSkipEmpty(msgs) ==
    IF msgs = <<>> THEN <<>>
    ELSE << <<"PENDING_MESSAGES_START", ToString(Len(msgs))>> >>
         \o PendingLines(msgs) \o << <<"PENDING_MESSAGES_END">> >>

\* PENDING_MESSAGES_START:<count>, the messages, PENDING_MESSAGES_END ("ALWAYS send")
PendingBlock(msgs) ==
    << <<"PENDING_MESSAGES_START", ToString(Len(msgs))>> >>
    \o PendingLines(msgs) \o << <<"PENDING_MESSAGES_END">> >>

Resume(s, tok) ==
    /\ pc[s] \in {"Idle", "Auth"}
    /\ LET r == ReplicaOf[s]
           data == GetSession(tok, tokens)
           u == data.username
           got == GetPendingMessages(u, pending)
       IN IF data = NoToken
          THEN /\ pc' = [pc EXCEPT ![s] = "Auth"]
               /\ last' = Step(s, "resume",
                               AuthRequest(s) \o
                               << <<"AUTH_FAILED", "Invalid or expired session">> >>, <<>>)
               /\ UNCHANGED <<user, dbSessions, sessId, rtoken, local, pending>>
               /\ UNCHANGED presVars
          ELSE /\ user' = [user EXCEPT ![s] = u]
               /\ rtoken' = [rtoken EXCEPT ![s] = tok]
               \* db_manager.create_session(user_id)
               /\ dbSessions' = Append(dbSessions, [user |-> u, active |-> TRUE, ts |-> Now])
               /\ sessId' = [sessId EXCEPT ![s] = Len(dbSessions) + 1]
               \* get_pending_messages(username, clear=True)
               /\ pending' = got.pending
               \* redis_manager.remove_online_user(username), and after the handler
               \* server.add_online_user(user_name, self)
               /\ local' = AddOnlineUserLocal(r, u, s)
               /\ onlineKey' = [onlineKey EXCEPT ![u] = r]
               /\ onlineSet' = onlineSet \cup {u}
               /\ pc' = [pc EXCEPT ![s] = "Menu"]
               /\ last' = Step(s, "resume",
                               AuthRequest(s) \o
                               << <<"SESSION_RESUMED", "Welcome back, " \o u \o "!">>,
                                  <<"SESSION_TOKEN", ToString(tok)>> >>
                               \o PendingBlock(got.ret) \o MainMenu, <<>>)
    \* update_session_heartbeat(session_token) renews the TTL of a key that exists
    /\ UNCHANGED <<tokens, userSession>>
    /\ UNCHANGED <<peer, conv, members, pushed, inbox, convs, messages, bcasts, gmsgs, gmembers, gactive>>
    /\ Tick /\ UNCHANGED <<presCallVars, epc, elen, enq, eof, apartVars>>

\* readline() or a write raises IOError (the connection is reset): in the main loop the
\* except clause and the finally block of run(); in authenticate_user "return None"
IoError(s) ==
    /\ pc[s] # "Closed"
    /\ IF user[s] # NoUser
       THEN Cleanup(s)
       ELSE /\ pc' = [pc EXCEPT ![s] = "Closed"]
            /\ UNCHANGED <<local, dbSessions>>
            /\ UNCHANGED presVars
    /\ last' = Step(s, "ioerror", <<>>, <<>>)
    /\ UNCHANGED <<user, peer, conv, members, sessId, rtoken, pushed, inbox,
                   convs, messages, bcasts, gmsgs>>
    /\ Tick /\ StoreUnchanged /\ OtherSpecsUnchanged

\* a call of save_pending_message(username, message): RPUSH, EXPIRE, LTRIM to the last 100;
\* the n-th message enqueued has the content "m<n>"
SavePendingMessage(u) ==
    /\ enq < MaxPend
    /\ enq' = enq + 1
    /\ pending' = [pending EXCEPT ![u] =
                      TrimToLast(Append(@, [content |-> "m" \o ToString(enq + 1),
                                            timestamp |-> enq + 1]), PendingCap)]
    /\ Tick
    /\ UNCHANGED <<pc, user, peer, conv, members, sessId, rtoken, pushed, last, eof, local, inbox,
                   tokens, userSession, dbSessions, convs, messages, bcasts, gmsgs, gmembers, gactive>>
    /\ UNCHANGED <<presVars, presCallVars, epc, elen, apartVars>>

\* the TTL of session:<token> (3600 s) runs out, and with it that of the user_session key
\* written with it
TokenExpire(tok) ==
    /\ tok \in DOMAIN tokens /\ tokens[tok].live
    /\ tokens' = [tokens EXCEPT ![tok].live = FALSE]
    /\ userSession' = [u \in Users |-> IF userSession[u] = tok THEN 0 ELSE userSession[u]]
    /\ Tick
    /\ UNCHANGED <<pc, user, peer, conv, members, sessId, rtoken, pushed, last, local, inbox,
                   dbSessions, convs, messages, bcasts, gmsgs, gmembers, gactive>>
    /\ UNCHANGED presVars /\ OtherSpecsUnchanged

\* the TTL of pending_messages:<u> (3600 s after the last push) runs out
PendingExpire(u) ==
    /\ pending[u] # <<>>
    /\ pending' = [pending EXCEPT ![u] = <<>>]
    /\ Tick
    /\ UNCHANGED <<pc, user, peer, conv, members, sessId, rtoken, pushed, last, eof, local, inbox,
                   tokens, userSession, dbSessions, convs, messages, bcasts, gmsgs, gmembers, gactive>>
    /\ UNCHANGED <<presVars, presCallVars, epc, elen, enq, apartVars>>

\* one client line of connection s
SessionStep(s) ==
    \/ \E u \in Users : Login(s, u, u \in Creds[s])
    \/ \E line \in {Eof, "\n"} : AuthEof(s, line)
    \/ MenuPrivate(s)
    \/ MenuBroadcast(s)
    \/ MenuMyGroups(s)
    \/ \E line \in ClientLines \cup {Eof} : MenuQuit(s, line)
    \/ \E line \in ClientLines : MenuInvalid(s, line)
    \/ ContactsBack(s)
    \/ \E name \in Users \cup {"bye"} : ContactsSelect(s, name)
    \/ PrivateBack(s)
    \/ \E text \in Texts, pubOk \in BOOLEAN : PrivateSend(s, text, pubOk)
    \/ BroadcastBack(s)
    \/ \E text \in Texts, failed \in SUBSET Users : BroadcastSend(s, text, failed)
    \/ MyGroupsBack(s)
    \/ \E isId \in BOOLEAN : MyGroupsSelect(s, isId)
    \/ GroupBack(s)
    \/ GroupBlank(s)
    \/ \E text \in Texts, failed \in SUBSET Users : GroupSend(s, text, failed)

Next ==
    \/ \E s \in Sessions : SessionStep(s)
    \/ \E r \in Replicas : Listen(r)
    \/ \E u \in Users : Expire(u)

Spec == Init /\ [][Next]_vars

(***************************************************************************)
(* SpecPair: the runs in which only alice's and bob's clients connect      *)
(* (one on each replica), followed for one more step.                      *)
(***************************************************************************)
PairSessions == {1, 2}

InitPair ==
    InitChat /\ budget = MaxPairSteps /\ InitPresence /\ InitPresCalls /\ InitPending /\ InitApart

NextPair ==
    \/ \E s \in PairSessions : SessionStep(s)
    \/ \E r \in Replicas : Listen(r)
    \/ \E u \in Users : Expire(u)

\* the listener of a replica is a thread of its own, blocked in pubsub.listen(): an
\* envelope waiting for it is taken
SpecPair == InitPair /\ [][NextPair]_vars /\ \A r \in Replicas : WF_vars(Listen(r))

(***************************************************************************)
(* SpecResume: the runs with reconnection.  Clients log in, resume with a  *)
(* token (a live one, an expired one, or one never issued), walk the menu  *)
(* and the contact selection, and leave by "bye", by closing the socket or *)
(* by a connection reset; callers of save_pending_message enqueue          *)
(* messages; keys expire.                                                  *)
(***************************************************************************)
ResumeStep(s) ==
    \/ \E u \in Users : Login(s, u, u \in Creds[s])
    \/ \E tok \in 1..(Len(tokens) + 1) : Resume(s, tok)
    \/ \E line \in {Eof, "\n"} : AuthEof(s, line)
    \/ \E line \in ClientLines \cup {Eof} : MenuQuit(s, line)
    \/ \E line \in ClientLines : MenuInvalid(s, line)
    \/ MenuPrivate(s)
    \/ ContactsBack(s)
    \/ \E name \in Users \cup {"bye"} : ContactsSelect(s, name)
    \/ IoError(s)

InitResume ==
    InitChat /\ budget = MaxResumeSteps /\ InitPresence /\ InitPresCalls /\ InitPending /\ InitApart

NextResume ==
    \/ \E s \in Sessions : ResumeStep(s)
    \/ \E u \in Users : Expire(u)
    \/ \E u \in Users : SavePendingMessage(u)
    \/ \E tok \in DOMAIN tokens : TokenExpire(tok)
    \/ \E u \in Users : PendingExpire(u)

SpecResume == InitResume /\ [][NextResume]_vars

(***************************************************************************)
(* SpecDisconnect: clients may close their socket at any point.  Once the  *)
(* lines sent before the close are read (the session steps of a connection *)
(* in eof), every readline() of the session thread returns the empty       *)
(* string.  Each Eof action below is one such read and what the thread     *)
(* does until its next readline.                                           *)
(***************************************************************************)
\* the client of connection s closes its socket
Disconnect(s) ==
    /\ s \notin eof
    /\ pc[s] # "Closed"
    /\ eof' = eof \cup {s}
    /\ UNCHANGED <<pc, user, peer, conv, members, sessId, rtoken, pushed, last, budget, local,
                   inbox, tokens, userSession, dbSessions, convs, messages, bcasts, gmsgs,
                   gmembers, gactive>>
    /\ UNCHANGED <<presVars, presCallVars, pendVars, apartVars>>

\* what a read at EOF leaves alone in every state
EofUnchanged ==
    UNCHANGED <<user, peer, conv, members, sessId, rtoken, pushed, budget, eof, inbox, tokens,
                userSession, convs, messages, bcasts, gmsgs, gmembers, gactive,
                presCallVars, pendVars, apartVars>>

\* authenticate_user: "if not auth_choice: return None"
EofAuth(s) ==
    /\ s \in eof /\ pc[s] \in {"Idle", "Auth"}
    /\ pc' = [pc EXCEPT ![s] = "Closed"]
    /\ last' = Step(s, "eof", AuthRequest(s), <<>>)
    /\ UNCHANGED <<local, dbSessions, onlineSet, onlineKey>> /\ EofUnchanged

\* run(): "elif not menu_choice: break", then the finally block
EofMenu(s) ==
    /\ s \in eof /\ pc[s] = "Menu"
    /\ Cleanup(s)
    /\ last' = Step(s, "eof", <<>>, <<>>)
    /\ EofUnchanged

\* handle_private_messages, handle_broadcast_chat, handle_my_groups: "not <line>" returns
\* to the main loop, which sends the menu
EofReturn(s) ==
    /\ s \in eof /\ pc[s] \in {"Contacts", "Broadcast", "MyGroups", "NoGroups"}
    /\ pc' = [pc EXCEPT ![s] = "Menu"]
    /\ last' = Step(s, "menu", MainMenu, <<>>)
    /\ UNCHANGED <<local, dbSessions, onlineSet, onlineKey>> /\ EofUnchanged

\* chat_with_contact: "not client_message" returns to handle_private_messages, which
\* sends the contact list
EofPrivate(s) ==
    /\ s \in eof /\ pc[s] = "PrivateChat"
    /\ LET lst == GetOnlineUsernames(onlineSet, onlineKey) IN
       /\ onlineSet' = lst.oset
       /\ last' = Step(s, "contacts", ContactList(user[s], lst.ret), <<>>)
    /\ pc' = [pc EXCEPT ![s] = "Contacts"]
    /\ UNCHANGED <<local, dbSessions, onlineKey>> /\ EofUnchanged

\* handle_group_chat: "if not client_message: continue"
EofGroup(s) ==
    /\ s \in eof /\ pc[s] = "GroupChat"
    /\ last' = Step(s, "blank", <<>>, <<>>)
    /\ UNCHANGED <<pc, local, dbSessions, onlineSet, onlineKey>> /\ EofUnchanged

EofRead(s) == EofAuth(s) \/ EofMenu(s) \/ EofReturn(s) \/ EofPrivate(s) \/ EofGroup(s)

InitDisconnect ==
    InitChat /\ budget = MaxDisconnectSteps /\ InitPresence /\ InitPresCalls /\ InitPending
    /\ InitApart

NextDisconnect ==
    \/ \E s \in PairSessions : SessionStep(s)
    \/ \E s \in PairSessions : Disconnect(s)
    \/ \E s \in PairSessions : EofRead(s)
    \/ \E r \in Replicas : Listen(r)
    \/ \E u \in Users : Expire(u)

\* a session thread blocked in readline() on a closed socket is woken and runs
SpecDisconnect ==
    /\ InitDisconnect /\ [][NextDisconnect]_vars
    /\ \A s \in PairSessions : WF_vars(EofRead(s))
    /\ \A r \in Replicas : WF_vars(Listen(r))

(***************************************************************************)
(* SpecPresence: add_online_user and remove_online_user issue their Redis  *)
(* commands one at a time, so other callers' commands, a reader's call or  *)
(* the expiry of the key can come in between.                              *)
(***************************************************************************)
PresenceOnly == UNCHANGED <<chatVars, pendVars, apartVars>>

\* add_online_user(username, server_id): SET and EXPIRE of the detail key ...
AddSetKey(w, u, r) ==
    /\ wpc[w] = "idle"
    /\ onlineKey' = [onlineKey EXCEPT ![u] = r]
    /\ wpc' = [wpc EXCEPT ![w] = "add_sadd"]
    /\ warg' = [warg EXCEPT ![w] = [u |-> u, r |-> r]]
    /\ UNCHANGED <<onlineSet, pret>> /\ PresenceOnly

\* ... then SADD online_users
AddSadd(w) ==
    /\ wpc[w] = "add_sadd"
    /\ onlineSet' = onlineSet \cup {warg[w].u}
    /\ wpc' = [wpc EXCEPT ![w] = "idle"]
    /\ warg' = [warg EXCEPT ![w] = NoArg]
    /\ UNCHANGED <<onlineKey, pret>> /\ PresenceOnly

\* remove_online_user(username): DELETE of the detail key ...
RemoveDelete(w, u) ==
    /\ wpc[w] = "idle"
    /\ onlineKey' = [onlineKey EXCEPT ![u] = NoKey]
    /\ wpc' = [wpc EXCEPT ![w] = "rem_srem"]
    /\ warg' = [warg EXCEPT ![w] = [u |-> u, r |-> NoKey]]
    /\ UNCHANGED <<onlineSet, pret>> /\ PresenceOnly

\* ... then SREM online_users
RemoveSrem(w) ==
    /\ wpc[w] = "rem_srem"
    /\ onlineSet' = onlineSet \ {warg[w].u}
    /\ wpc' = [wpc EXCEPT ![w] = "idle"]
    /\ warg' = [warg EXCEPT ![w] = NoArg]
    /\ UNCHANGED <<onlineKey, pret>> /\ PresenceOnly

\* a call of is_user_online(u)
CallIsUserOnline(u) ==
    /\ LET res == IsUserOnline(u, onlineSet, onlineKey) IN
       /\ onlineSet' = res.oset
       /\ pret' = [op |-> "is_user_online", arg |-> u, ret |-> res.ret, names |-> {},
                   cleaned |-> onlineSet \ res.oset]
    /\ UNCHANGED <<onlineKey, wpc, warg>> /\ PresenceOnly

\* a call of get_online_usernames()
CallGetOnlineUsernames ==
    /\ LET res == GetOnlineUsernames(onlineSet, onlineKey) IN
       /\ onlineSet' = res.oset
       /\ pret' = [op |-> "get_online_usernames", arg |-> NoUser, ret |-> FALSE,
                   names |-> res.ret, cleaned |-> onlineSet \ res.oset]
    /\ UNCHANGED <<onlineKey, wpc, warg>> /\ PresenceOnly

\* the TTL of online_user:<u> runs out
KeyExpires(u) ==
    /\ ExpireKey(u)
    /\ UNCHANGED <<onlineSet, wpc, warg, pret>> /\ PresenceOnly

NextPresence ==
    \/ \E w \in Writers, u \in PresUsers, r \in Replicas : AddSetKey(w, u, r)
    \/ \E w \in Writers : AddSadd(w)
    \/ \E w \in Writers, u \in PresUsers : RemoveDelete(w, u)
    \/ \E w \in Writers : RemoveSrem(w)
    \/ \E u \in PresUsers : CallIsUserOnline(u)
    \/ CallGetOnlineUsernames
    \/ \E u \in PresUsers : KeyExpires(u)

SpecPresence == Init /\ [][NextPresence]_vars

\* SpecWriters: the runs of SpecPresence that end before any detail key is 1800 s old
NextWriters ==
    \/ \E w \in Writers, u \in PresUsers, r \in Replicas : AddSetKey(w, u, r)
    \/ \E w \in Writers : AddSadd(w)
    \/ \E w \in Writers, u \in PresUsers : RemoveDelete(w, u)
    \/ \E w \in Writers : RemoveSrem(w)
    \/ \E u \in PresUsers : CallIsUserOnline(u)
    \/ CallGetOnlineUsernames

SpecWriters == Init /\ [][NextWriters]_vars

(***************************************************************************)
(* SpecPending: save_pending_message(PendUser, message) issues RPUSH,      *)
(* EXPIRE, LLEN and, when the length read exceeds the cap, LTRIM.          *)
(***************************************************************************)
PendingOnly == UNCHANGED <<chatVars, presVars, presCallVars, apartVars>>

\* RPUSH pending_messages:<username>
Rpush(e) ==
    /\ epc[e] = "idle"
    /\ enq < MaxEnq
    /\ enq' = enq + 1
    /\ pending' = [pending EXCEPT ![PendUser] = Append(@, enq + 1)]
    /\ epc' = [epc EXCEPT ![e] = "expire"]
    /\ UNCHANGED elen /\ PendingOnly

\* EXPIRE pending_messages:<username> 3600
ExpirePending(e) ==
    /\ epc[e] = "expire"
    /\ epc' = [epc EXCEPT ![e] = "llen"]
    /\ UNCHANGED <<pending, elen, enq>> /\ PendingOnly

\* list_length = LLEN; "if list_length > 100" decides whether LTRIM follows
Llen(e) ==
    /\ epc[e] = "llen"
    /\ elen' = [elen EXCEPT ![e] = Len(pending[PendUser])]
    /\ epc' = [epc EXCEPT ![e] = IF Len(pending[PendUser]) > PendingCap THEN "ltrim" ELSE "idle"]
    /\ UNCHANGED <<pending, enq>> /\ PendingOnly

\* LTRIM pending_messages:<username> -100 -1
Ltrim(e) ==
    /\ epc[e] = "ltrim"
    /\ pending' = [pending EXCEPT ![PendUser] = TrimToLast(@, PendingCap)]
    /\ epc' = [epc EXCEPT ![e] = "idle"]
    /\ UNCHANGED <<elen, enq>> /\ PendingOnly

NextPending ==
    \/ \E e \in Enqueuers : Rpush(e)
    \/ \E e \in Enqueuers : ExpirePending(e)
    \/ \E e \in Enqueuers : Llen(e)
    \/ \E e \in Enqueuers : Ltrim(e)

SpecPending == Init /\ [][NextPending]_vars

(***************************************************************************)
(* SpecDrain: get_pending_messages(PendUser, clear=True) issues LRANGE 0   *)
(* -1 and then DELETE, beside the callers of save_pending_message.  The    *)
(* list stays below the cap, so no LTRIM is issued.                        *)
(***************************************************************************)
DrainOnly == UNCHANGED <<chatVars, presVars, presCallVars, epc, elen, enq, scalerVars, getconv, grptx, wthr, wire, sthr, committed, nmsg>>

DrainCalls == drain[1].calls + drain[2].calls

\* messages_json = LRANGE pending_messages:<username> 0 -1
Lrange(d) ==
    /\ drain[d].pc = "idle"
    /\ DrainCalls < MaxDrainCalls
    /\ drain' = [drain EXCEPT ![d].pc = "delete", ![d].got = pending[PendUser], ![d].calls = @ + 1]
    /\ UNCHANGED pending /\ DrainOnly

\* "if clear:" DELETE pending_messages:<username>; return messages
DeletePending(d) ==
    /\ drain[d].pc = "delete"
    /\ pending' = [pending EXCEPT ![PendUser] = <<>>]
    /\ drain' = [drain EXCEPT ![d].pc = "idle", ![d].got = <<>>, ![d].ret = @ \o drain[d].got]
    /\ DrainOnly

\* the RPUSH of a save_pending_message call
DrainRpush(e) == enq < MaxDrainEnq /\ Rpush(e)

NextDrain ==
    \/ \E e \in Enqueuers : DrainRpush(e)
    \/ \E e \in Enqueuers : ExpirePending(e)
    \/ \E e \in Enqueuers : Llen(e)
    \/ \E d \in Drainers : Lrange(d)
    \/ \E d \in Drainers : DeletePending(d)

SpecDrain == Init /\ [][NextDrain]_vars

(***************************************************************************)
(* SpecWriter: the writer of one session.  Its handler sends the frame of  *)
(* send_conversation_history (one message in the history); the other       *)
(* threads call send_message on the same UserThread.  Every line is a      *)
(* writer.write followed by a writer.flush; no lock is taken.              *)
(***************************************************************************)
WriterOnly == UNCHANGED <<chatVars, presVars, presCallVars, pendVars, scalerVars, getconv, grptx, drain, sthr, committed, nmsg>>

\* the frame of send_conversation_history
HistoryFrame == <<"CONVERSATION_START", "history", "CONVERSATION_READY">>

\* the line thread t writes next
NextLine(t) ==
    IF t = "handler" THEN HistoryFrame[wthr[t].done + 1]
    ELSE IF t = "peer" THEN "MESSAGE" ELSE "GROUP_MESSAGE"

\* self.writer.write(line + "\n")
WriteLine(t) ==
    /\ wthr[t].pc = "idle"
    /\ Len(wire) < MaxWrites
    /\ wire' = Append(wire, [by |-> t, line |-> NextLine(t)])
    /\ wthr' = [wthr EXCEPT ![t].pc = "flush"]
    /\ WriterOnly

\* self.writer.flush()
FlushLine(t) ==
    /\ wthr[t].pc = "flush"
    /\ wthr' = [wthr EXCEPT ![t].pc = "idle",
                            ![t].done = IF t = "handler" THEN (@ + 1) % Len(HistoryFrame) ELSE @]
    /\ UNCHANGED wire /\ WriterOnly

NextWriter ==
    \/ \E t \in WThreads : WriteLine(t)
    \/ \E t \in WThreads : FlushLine(t)

SpecWriter == Init /\ [][NextWriter]_vars

(***************************************************************************)
(* SpecOrder: one iteration of the loop of chat_with_contact, statement by *)
(* statement: save_private_message, send_to_user, the confirmation.  The   *)
(* recipient's session, when online, is on the senders' replica.           *)
(***************************************************************************)
OrderOnly == UNCHANGED <<chatVars, presVars, presCallVars, pendVars, scalerVars, getconv, grptx, drain, wthr>>

\* the confirmation chat_with_contact writes after send_to_user returned message_delivered;
\* whether the save committed is not consulted
Confirmation(message_delivered, saved) ==
    IF message_delivered THEN "SENT:Message delivered"
    ELSE "SENT:Message saved (recipient offline)"

\* client_message = readline(); save_private_message(...): INSERT, UPDATE, commit; on an
\* exception rollback, print, and return as after a commit
SavePrivateMessage(t, dbOk) ==
    /\ sthr[t].pc = "idle"
    /\ nmsg < MaxOrderMsgs
    /\ nmsg' = nmsg + 1
    /\ committed' = IF dbOk THEN Append(committed, nmsg + 1) ELSE committed
    /\ sthr' = [sthr EXCEPT ![t].pc = "send", ![t].msg = nmsg + 1]
    /\ UNCHANGED wire /\ OrderOnly

\* message_delivered = self.server.send_to_user(contact_name, "MESSAGE:...")
SendPrivate(t, online) ==
    /\ sthr[t].pc = "send"
    /\ wire' = IF online THEN Append(wire, [by |-> t, line |-> <<"MESSAGE", sthr[t].msg>>]) ELSE wire
    /\ sthr' = [sthr EXCEPT ![t].pc = "confirm", ![t].delivered = online]
    /\ UNCHANGED <<committed, nmsg>> /\ OrderOnly

\* self.writer.write("SENT:..."); self.writer.flush()
ConfirmPrivate(t) ==
    /\ sthr[t].pc = "confirm"
    /\ sthr' = [sthr EXCEPT ![t].pc = "idle",
                            ![t].out = Append(@, [line |-> Confirmation(sthr[t].delivered,
                                                                        sthr[t].msg \in Range(committed)),
                                                  msg |-> sthr[t].msg])]
    /\ UNCHANGED <<wire, committed, nmsg>> /\ OrderOnly

NextOrder ==
    \/ \E t \in Senders, dbOk \in BOOLEAN : SavePrivateMessage(t, dbOk)
    \/ \E t \in Senders, online \in BOOLEAN : SendPrivate(t, online)
    \/ \E t \in Senders : ConfirmPrivate(t)

SpecOrder == Init /\ [][NextOrder]_vars

(***************************************************************************)
(* SpecScaler: the scaling controller (ChatAutoscaler.run).  One action is *)
(* one iteration of the loop, from its reads to its sleep.  The inputs of  *)
(* an iteration are the cardinality of online_users and whether the Redis  *)
(* read, the deployment read and the deployment patch succeed.             *)
(***************************************************************************)
Max(a, b) == IF a >= b THEN a ELSE b
Min(a, b) == IF a <= b THEN a ELSE b

\* math.ceil(a / b), for a >= 0 and b > 0
Ceil(a, b) == (a + b - 1) \div b

\* get_online_user_count: SCARD online_users, 0 when Redis fails
GetOnlineUserCount(n, redisOk) == IF redisOk THEN n ELSE 0

\* get_current_replicas: None on ApiException
GetCurrentReplicas(readOk) == IF readOk THEN replicas ELSE None

CalculateDesiredReplicasFloor(c, user_count) ==
    IF user_count = 0
    THEN c.min_replicas
    ELSE Max(c.min_replicas, Min(user_count \div c.users_per_pod, c.max_replicas))

CalculateDesiredReplicas(c, user_count) ==
    IF user_count = 0
    THEN c.min_replicas
    ELSE Max(c.min_replicas, Min(Ceil(user_count, c.users_per_pod), c.max_replicas))

\* last_scale_down_check[key] = now, del last_scale_down_check[key]
Put(checks, key, now) ==
    [k \in DOMAIN checks \cup {key} |-> IF k = key THEN now ELSE checks[k]]
Del(checks, key) == [k \in DOMAIN checks \ {key} |-> checks[k]]

\* should_scale_down(current, desired) at time now: what it returns, and the dictionary
\* it leaves; the key f"{current}->{desired}" is the pair
ShouldScaleDown(c, checks, current, desired, now) ==
    LET key == <<current, desired>> IN
    IF desired >= current
    THEN [ret |-> FALSE, checks |-> checks]
    ELSE IF key \notin DOMAIN checks
    THEN [ret |-> FALSE, checks |-> Put(checks, key, now)]
    ELSE IF now - checks[key] < c.scale_down_delay
    THEN [ret |-> FALSE, checks |-> checks]
    ELSE [ret |-> TRUE, checks |-> Del(checks, key)]

\* "Decide if we need to scale": the replica count the iteration patches to (None when it
\* patches nothing) and the dictionary it leaves
DecideDebounceBoth(c, checks, current, desired, now) ==
    LET key == <<current, desired>> IN
    IF current = desired
    THEN [patch |-> None, checks |-> NoChecks]
    ELSE IF key \notin DOMAIN checks
    THEN [patch |-> None, checks |-> Put(checks, key, now)]
    ELSE IF now - checks[key] < c.scale_down_delay
    THEN [patch |-> None, checks |-> checks]
    ELSE [patch |-> desired, checks |-> Del(checks, key)]

Decide(c, checks, current, desired, now) ==
    IF current = desired
    THEN [patch |-> None, checks |-> NoChecks]
    ELSE IF desired > current
    THEN [patch |-> desired, checks |-> NoChecks]
    ELSE LET down == ShouldScaleDown(c, checks, current, desired, now) IN
         [patch |-> IF down.ret THEN desired ELSE None, checks |-> down.checks]

\* one iteration of the loop of run(), started when time.time() is clock; scale_deployment
\* changes the deployment unless the API raises
Run(n, redisOk, readOk, patchOk) ==
    /\ clock < MaxClock
    /\ LET user_count == GetOnlineUserCount(n, redisOk)
           current == GetCurrentReplicas(readOk)
       IN IF current = None
          THEN /\ tick' = [users |-> user_count, users_ok |-> redisOk, current |-> None,
                           desired |-> None, patch |-> None, ok |-> TRUE]
               /\ UNCHANGED <<replicas, last_scale_down_check, observed>>
          ELSE LET desired == CalculateDesiredReplicas(config, user_count)
                   d == Decide(config, last_scale_down_check, current, desired, clock)
               IN /\ tick' = [users |-> user_count, users_ok |-> redisOk, current |-> current,
                              desired |-> desired,
                              patch |-> d.patch, ok |-> (d.patch = None \/ patchOk)]
                  /\ replicas' = IF d.patch # None /\ patchOk THEN d.patch ELSE replicas
                  /\ last_scale_down_check' = d.checks
                  /\ observed' = IF observed.current = current /\ observed.desired = desired
                                 THEN observed
                                 ELSE [current |-> current, desired |-> desired,
                                       since |-> clock]
    /\ clock' = clock + config.check_interval
    /\ UNCHANGED <<config, chatVars, presVars, presCallVars, pendVars, getconv, grptx, stepVars>>

InitScaler ==
    /\ InitChat /\ budget = MaxSteps /\ InitPresence /\ InitPresCalls /\ InitPending
    /\ config \in Configs
    /\ replicas \in StartReplicas
    /\ last_scale_down_check = NoChecks
    /\ clock = 0
    /\ tick = NoTick
    /\ observed = [current |-> None, desired |-> None, since |-> 0]
    /\ getconv = [s \in Sessions |-> NoCall]
    /\ grptx = [u \in Users |-> NoTx]
    /\ InitStep

NextScaler == \E n \in UserCounts, redisOk, readOk, patchOk \in BOOLEAN : Run(n, redisOk, readOk, patchOk)

SpecScaler == InitScaler /\ [][NextScaler]_vars

(***************************************************************************)
(* SpecConv: get_or_create_conversation at the level of its SQL            *)
(* statements, with concurrent callers (one connection of the pool each).  *)
(* The SELECT is one step; the INSERT with its commit, or the return of    *)
(* the row found, is another.  The table definition is not part of the     *)
(* sources: the table is taken to refuse a second row for a pair of        *)
(* participants, as the data model states.                                 *)
(***************************************************************************)
\* the SELECT with the arguments in the order the caller gave them
SelectConversationCallerOrder(rows, a, b) ==
    LET found == {i \in DOMAIN rows : rows[i] = <<a, b>>} IN
    IF found = {} THEN 0 ELSE CHOOSE i \in found : \A j \in found : i <= j

\* "Check if conversation exists": fetchone() of the SELECT, 0 when there is no row
SelectConversation(rows, a, b) ==
    LET found == {i \in DOMAIN rows : rows[i] = CanonicalPair(a, b)} IN
    IF found = {} THEN 0 ELSE CHOOSE i \in found : \A j \in found : i <= j

\* the conversations table accepts a row for the pair
ConversationsUnique(rows, pair) == \A i \in DOMAIN rows : rows[i] # pair

\* get_or_create_conversation(a, b) up to the fetchone() of its SELECT
GetOrCreateSelect(s, a, b) ==
    /\ getconv[s].pc = "idle"
    /\ a # b
    /\ getconv' = [getconv EXCEPT ![s] = [pc |-> "selected", args |-> <<a, b>>,
                                          result |-> SelectConversation(convs, a, b),
                                          ret |-> 0]]
    /\ Tick
    /\ UNCHANGED <<pc, user, peer, conv, members, sessId, rtoken, pushed, last, eof, local,
                   inbox, tokens, userSession, dbSessions, convs, messages, bcasts, gmsgs,
                   gmembers, gactive>>
    /\ UNCHANGED <<presVars, presCallVars, pendVars, scalerVars, grptx, stepVars>>

\* the rest of the call: the id found is returned, or the row is inserted and committed;
\* an INSERT the table refuses raises, and the call rolls back and returns None
GetOrCreateFinish(s) ==
    /\ getconv[s].pc = "selected"
    /\ LET pair == CanonicalPair(getconv[s].args[1], getconv[s].args[2]) IN
       IF getconv[s].result # 0
       THEN /\ getconv' = [getconv EXCEPT ![s].pc = "idle", ![s].ret = getconv[s].result]
            /\ UNCHANGED convs
       ELSE IF ConversationsUnique(convs, pair)
       THEN /\ convs' = Append(convs, pair)
            /\ getconv' = [getconv EXCEPT ![s].pc = "idle", ![s].ret = Len(convs) + 1]
       ELSE /\ getconv' = [getconv EXCEPT ![s].pc = "idle", ![s].ret = None]
            /\ UNCHANGED convs
    /\ UNCHANGED <<pc, user, peer, conv, members, sessId, rtoken, pushed, last, budget, eof,
                   local, inbox, tokens, userSession, dbSessions, messages, bcasts, gmsgs,
                   gmembers, gactive>>
    /\ UNCHANGED <<presVars, presCallVars, pendVars, scalerVars, grptx, stepVars>>

InitConv ==
    InitChat /\ budget = MaxConvCalls /\ InitPresence /\ InitPresCalls /\ InitPending
    /\ InitApart

NextConv ==
    \/ \E s \in Sessions : \E a, b \in {UserId[u] : u \in Users} : GetOrCreateSelect(s, a, b)
    \/ \E s \in Sessions : GetOrCreateFinish(s)

SpecConv == InitConv /\ [][NextConv]_vars

(***************************************************************************)
(* SpecGroups: the DatabaseManager calls on the group at the level of SQL  *)
(* statements, one caller per user, each on its own connection.  The       *)
(* connections run at PostgreSQL's default isolation (read committed):     *)
(* a statement sees the rows committed when it starts and the changes of   *)
(* its own transaction.  gmembers and gactive are the committed rows.      *)
(***************************************************************************)
\* what the other variables do in a step of a database call on the group
GroupCallUnchanged ==
    /\ UNCHANGED <<pc, user, peer, conv, members, sessId, rtoken, pushed, last, eof, local,
                   inbox, tokens, userSession, dbSessions, convs, messages, bcasts, gmsgs>>
    /\ UNCHANGED <<presVars, presCallVars, pendVars, scalerVars, getconv, stepVars>>

\* a call that is over: what it was and what it returned
Returns(u, op, ret) ==
    grptx' = [grptx EXCEPT ![u] = [pc |-> "idle", count |-> 0, op |-> op, ret |-> ret]]

\* leave_group(group_id, u): the membership check and the DELETE
LeaveDelete(u) ==
    /\ grptx[u].pc = "idle"
    /\ IF ~IsGroupMember(u)
       THEN Returns(u, "leave", "You are not a member of this group")
       ELSE grptx' = [grptx EXCEPT ![u].pc = "deleted", ![u].op = "leave", ![u].ret = "none"]
    /\ Tick /\ UNCHANGED <<gmembers, gactive>> /\ GroupCallUnchanged

\* leave_group: SELECT COUNT(*) sees the committed rows but the caller's own, and the
\* UPDATE is made when it is 0
LeaveCount(u) ==
    /\ grptx[u].pc = "deleted"
    /\ grptx' = [grptx EXCEPT ![u].pc = "counted", ![u].count = Len(Without(gmembers, u))]
    /\ UNCHANGED <<budget, gmembers, gactive>> /\ GroupCallUnchanged

\* leave_group: conn.commit() makes the DELETE, and the UPDATE if any, visible
LeaveCommit(u) ==
    /\ grptx[u].pc = "counted"
    /\ gmembers' = Without(gmembers, u)
    /\ gactive' = IF grptx[u].count = 0 THEN FALSE ELSE gactive
    /\ Returns(u, "leave", "Successfully left group")
    /\ UNCHANGED budget /\ GroupCallUnchanged

\* join_group(group_id, u): the two checks
JoinCheck(u) ==
    /\ grptx[u].pc = "idle"
    /\ IF IsGroupMember(u)
       THEN Returns(u, "join", "You are already a member of this group")
       ELSE IF ~gactive
       THEN Returns(u, "join", "Group not found or inactive")
       ELSE grptx' = [grptx EXCEPT ![u].pc = "checked", ![u].op = "join", ![u].ret = "none"]
    /\ Tick /\ UNCHANGED <<gmembers, gactive>> /\ GroupCallUnchanged

\* join_group: the INSERT and conn.commit()
JoinInsert(u) ==
    /\ grptx[u].pc = "checked"
    /\ gmembers' = Append(gmembers, u)
    /\ Returns(u, "join", "Successfully joined group")
    /\ UNCHANGED <<budget, gactive>> /\ GroupCallUnchanged

\* get_group_info(group_id), by which handle_group_chat opens the group: the name, or None
GetGroupInfo(u) ==
    /\ grptx[u].pc = "idle"
    /\ Returns(u, "get_group_info", IF gactive THEN GroupName ELSE "None")
    /\ Tick /\ UNCHANGED <<gmembers, gactive>> /\ GroupCallUnchanged

\* get_all_groups() and get_user_groups(u), the listings: the group's name when listed
GetAllGroups(u) ==
    /\ grptx[u].pc = "idle"
    /\ Returns(u, "get_all_groups", IF gactive THEN GroupName ELSE "None")
    /\ Tick /\ UNCHANGED <<gmembers, gactive>> /\ GroupCallUnchanged

GetUserGroups(u) ==
    /\ grptx[u].pc = "idle"
    /\ Returns(u, "get_user_groups", IF gactive /\ IsGroupMember(u) THEN GroupName ELSE "None")
    /\ Tick /\ UNCHANGED <<gmembers, gactive>> /\ GroupCallUnchanged

InitGroups ==
    InitChat /\ budget = MaxGroupCalls /\ InitPresence /\ InitPresCalls /\ InitPending
    /\ InitApart

NextGroups ==
    \/ \E u \in Users : LeaveDelete(u)
    \/ \E u \in Users : LeaveCount(u)
    \/ \E u \in Users : LeaveCommit(u)
    \/ \E u \in Users : JoinCheck(u)
    \/ \E u \in Users : JoinInsert(u)
    \/ \E u \in Users : GetGroupInfo(u)
    \/ \E u \in Users : GetAllGroups(u)
    \/ \E u \in Users : GetUserGroups(u)

SpecGroups == InitGroups /\ [][NextGroups]_vars

(***************************************************************************)
(* SpecMembers: alice's and bob's clients log in and walk to the group     *)
(* chat while users leave and join the group (from handle_group_chat's     *)
(* "/leave" and handle_browse_groups on connections of their own).         *)
(***************************************************************************)
MemberStep(s) ==
    \/ \E u \in Users : Login(s, u, u \in Creds[s])
    \/ MenuMyGroups(s)
    \/ MyGroupsBack(s)
    \/ \E isId \in BOOLEAN : MyGroupsSelect(s, isId)
    \/ GroupBack(s)
    \/ GroupBlank(s)
    \/ \E text \in Texts, failed \in SUBSET Users : GroupSend(s, text, failed)

InitMembers ==
    InitChat /\ budget = MaxMemberSteps /\ InitPresence /\ InitPresCalls /\ InitPending
    /\ InitApart

NextMembers ==
    \/ \E s \in PairSessions : MemberStep(s)
    \/ \E r \in Replicas : Listen(r)
    \/ \E u \in Users : LeaveDelete(u)
    \/ \E u \in Users : LeaveCount(u)
    \/ \E u \in Users : LeaveCommit(u)
    \/ \E u \in Users : JoinCheck(u)
    \/ \E u \in Users : JoinInsert(u)

SpecMembers == InitMembers /\ [][NextMembers]_vars

(***************************************************************************)
(* SpecShutdown: SpecPair's connections on replicas that may be sent       *)
(* SIGTERM.  chat_server.py installs no handler for the signal, so the     *)
(* process ends where it stands: its threads stop between two statements,  *)
(* its memory and its subscription are gone, and nothing it wrote to Redis *)
(* or to the database is taken back.                                       *)
(***************************************************************************)
\* a replica that was terminated: its connections are "Killed"
Down(r) == \E s \in PairSessions : ReplicaOf[s] = r /\ pc[s] = "Killed"

\* the process of replica r receives SIGTERM
Sigterm(r) ==
    /\ ~Down(r)
    /\ \E s \in PairSessions : ReplicaOf[s] = r /\ pc[s] # "Closed"
    /\ pc' = [s \in Sessions |-> IF ReplicaOf[s] = r /\ pc[s] # "Closed" THEN "Killed" ELSE pc[s]]
    /\ local' = [local EXCEPT ![r] = [u \in Users |-> NoSession]]
    /\ inbox' = [inbox EXCEPT ![r] = <<>>]
    /\ UNCHANGED <<user, peer, conv, members, sessId, rtoken, pushed, last, budget, eof,
                   tokens, userSession, dbSessions, convs, messages, bcasts, gmsgs, gmembers,
                   gactive>>
    /\ UNCHANGED <<presVars, presCallVars, pendVars, apartVars>>

InitShutdown ==
    InitChat /\ budget = MaxShutdownSteps /\ InitPresence /\ InitPresCalls /\ InitPending
    /\ InitApart

NextShutdown ==
    \/ \E s \in PairSessions : SessionStep(s)
    \/ \E r \in Replicas : Listen(r)
    \/ \E u \in Users : Expire(u)
    \/ \E r \in Replicas : Sigterm(r)

SpecShutdown == InitShutdown /\ [][NextShutdown]_vars

(***************************************************************************)
(* SpecReconnect: Spec with clients that may also open a connection with   *)
(* RESUME_SESSION, while the connection the token was issued on is still   *)
(* open or after it ended.                                                 *)
(***************************************************************************)
InitReconnect ==
    InitChat /\ budget = MaxReconnectSteps /\ InitPresence /\ InitPresCalls /\ InitPending
    /\ InitApart

NextReconnect ==
    \/ \E s \in Sessions : SessionStep(s)
    \/ \E s \in Sessions : \E tok \in 1..(Len(tokens) + 1) : Resume(s, tok)
    \/ \E r \in Replicas : Listen(r)
    \/ \E u \in Users : Expire(u)

SpecReconnect == InitReconnect /\ [][NextReconnect]_vars

(***************************************************************************)
(* Properties of send_to_user and of the subscriber loop, under Spec.      *)
(***************************************************************************)
\* what is_user_online(u) would return
Online(u) == u \in onlineSet /\ onlineKey[u] # NoKey

\* the lines a step adds to the writer of session x, the envelopes it adds to the
\* listener queue of replica q
NewLines(x) == SubSeq(pushed'[x], Len(pushed[x]) + 1, Len(pushed'[x]))
NewEnvelopes(q) == SubSeq(inbox'[q], Len(inbox[q]) + 1, Len(inbox'[q]))

\* a step in which session s handles a line that makes it call send_to_user
SendStep(s) ==
    \/ \E text \in Texts, pubOk \in BOOLEAN : PrivateSend(s, text, pubOk)
    \/ \E text \in Texts, failed \in SUBSET Users : BroadcastSend(s, text, failed)
    \/ \E text \in Texts, failed \in SUBSET Users : GroupSend(s, text, failed)

\* the step publishes nothing for target t
NothingPublishedFor(t) ==
    \A q \in Replicas : \A j \in DOMAIN NewEnvelopes(q) : NewEnvelopes(q)[j].target_username # t

\* C2: a send_to_user(target, msg) call made while the Coordinator does not report the
\* target online returns False, writes nothing to the target's session on the calling
\* replica (even when the replica's local map holds one) and publishes nothing for the
\* target; when it is the only call of the step, no writer and no channel changes at all.
C2_OfflineNoSend ==
    [][\A s \in Sessions :
          SendStep(s) =>
             \A i \in DOMAIN last'.calls :
                LET c == last'.calls[i]
                    x == local[ReplicaOf[s]][c.target]
                IN ~Online(c.target) =>
                      /\ ~c.ret
                      /\ x # NoSession => NewLines(x) = <<>>
                      /\ NothingPublishedFor(c.target)
                      /\ Len(last'.calls) = 1 => (pushed' = pushed /\ inbox' = inbox)]_vars

\* bob (session 2, rB) sent a private line to carol, whose session 3 is in rB's local map
\* and whose detail key has expired: False, nothing written, nothing published
C2_Witness ==
    /\ last.s = 2 /\ last.op = "private"
    /\ Len(last.calls) = 1 /\ last.calls[1].target = "carol" /\ ~last.calls[1].ret
    /\ local["rB"]["carol"] = 3 /\ onlineKey["carol"] = NoKey
    /\ pushed[3] = <<>> /\ inbox["rA"] = <<>> /\ inbox["rB"] = <<>>

\* C3: a send_to_user(target, msg) call made while the target is online in the Coordinator
\* and in the calling replica's local map returns True, writes msg exactly once to that
\* session's writer and publishes nothing for the target.
C3_LocalDirect ==
    [][\A s \in Sessions :
          SendStep(s) =>
             \A i \in DOMAIN last'.calls :
                LET c == last'.calls[i]
                    x == local[ReplicaOf[s]][c.target]
                IN (Online(c.target) /\ x # NoSession) =>
                      /\ c.ret
                      /\ NewLines(x) = <<c.msg>>
                      /\ NothingPublishedFor(c.target)
                      /\ Len(last'.calls) = 1 =>
                            /\ inbox' = inbox
                            /\ \A y \in Sessions \ {x} : pushed'[y] = pushed[y]]_vars

\* bob (session 2, rB) sent a private line to carol, online on the same replica
C3_Witness ==
    /\ last.s = 2 /\ last.op = "private"
    /\ Len(last.calls) = 1 /\ last.calls[1].target = "carol" /\ last.calls[1].ret
    /\ local["rB"]["carol"] = 3
    /\ pushed[3] = << <<"MESSAGE", "bob", "hi">> >>
    /\ inbox["rA"] = <<>> /\ inbox["rB"] = <<>>

\* C4 as stated: a send_to_user(target, msg) call made while the target is online in the
\* Coordinator and not in the calling replica's local map publishes exactly one envelope
\* {target_username, message, sender_server_id = the calling replica} on chat_messages
\* and returns True, whether or not the publish fails.
C4_RemotePublished ==
    [][\A s \in Sessions :
          SendStep(s) =>
             \A i \in DOMAIN last'.calls :
                LET c == last'.calls[i]
                    r == ReplicaOf[s]
                IN (Online(c.target) /\ local[r][c.target] = NoSession) =>
                      /\ c.ret
                      /\ \A q \in Replicas :
                            Count(NewEnvelopes(q),
                                  [target_username |-> c.target, message |-> c.msg,
                                   sender_server_id |-> r]) = 1]_vars

\* C5: when a replica's listener takes an envelope, it writes the envelope's message to a
\* session exactly when that session is the replica's local entry of the envelope's
\* target and the envelope was published by another replica; it writes nothing to any
\* other session, and nothing at all for an envelope the replica published itself.
C5_ListenerDelivers ==
    [][\A r \in Replicas :
          Listen(r) =>
             LET env == Head(inbox[r]) IN
             \A x \in Sessions :
                NewLines(x) = IF x = local[r][env.target_username] /\ env.sender_server_id # r
                              THEN <<env.message>> ELSE <<>>]_vars

\* rB published an envelope for alice while she was only on rA; she then logged in on rB
\* too (session 3); rB's listener has taken its own envelope and written nothing
C5_Witness ==
    /\ inbox["rB"] = <<>>
    /\ inbox["rA"] = << [target_username |-> "alice", message |-> <<"MESSAGE", "bob", "hi">>,
                        sender_server_id |-> "rB"] >>
    /\ local["rB"]["alice"] = 3 /\ pushed[3] = <<>>
    /\ pushed[1] = <<>>

(***************************************************************************)
(* Scenario S1, under SpecPair: alice (session 1) is connected to rA only, *)
(* bob (session 2) to rB only.                                             *)
(***************************************************************************)
\* the rows of messages that sender wrote in the conversation of the users a and b
RowsFromTo(sender, a, b) ==
    {i \in DOMAIN messages :
        /\ messages[i].sender = sender
        /\ Range(convs[messages[i].conv]) = {UserId[a], UserId[b]}}

\* the envelope rA publishes for alice's line to bob
EnvAliceBob(text) ==
    [target_username |-> "bob", message |-> <<"MESSAGE", "alice", text>>,
     sender_server_id |-> "rA"]

\* alice is in PrivateChat with bob, both are online, each on its own replica only
S1_Ready ==
    /\ pc[1] = "PrivateChat" /\ user[1] = "alice" /\ peer[1] = "bob"
    /\ local["rA"]["alice"] = 1 /\ local["rB"]["alice"] = NoSession
    /\ local["rB"]["bob"] = 2 /\ local["rA"]["bob"] = NoSession
    /\ Online("alice") /\ Online("bob")

\* the send step of S1 (the publish reaches the channel)
S1_Send(text) ==
    (S1_Ready /\ PrivateSend(1, text, TRUE)) =>
       /\ Len(messages') = Len(messages) + 1
       /\ Len(messages') \in {i \in DOMAIN messages' :
                                /\ messages'[i].sender = "alice" /\ messages'[i].text = text
                                /\ Range(convs[messages'[i].conv]) = {UserId["alice"], UserId["bob"]}}
       /\ last'.s = 1 /\ last'.lines = << <<"SENT", "Message delivered">> >>
       /\ pushed' = pushed
       /\ \A q \in Replicas : NewEnvelopes(q) = <<EnvAliceBob(text)>>

\* the listeners' steps of S1: rB writes the line once to bob's session, rA writes nothing
S1_Relay(text) ==
    /\ (Listen("rB") /\ Head(inbox["rB"]) = EnvAliceBob(text) /\ local["rB"]["bob"] = 2) =>
          /\ NewLines(2) = << <<"MESSAGE", "alice", text>> >>
          /\ NewLines(1) = <<>>
    /\ (Listen("rA") /\ Head(inbox["rA"]) = EnvAliceBob(text)) => pushed' = pushed

\* bob's session never holds, written or on its way, more MESSAGE:alice lines than alice
\* has sent bob messages
S1_AtMostOnce(text) ==
    Count(pushed[2], <<"MESSAGE", "alice", text>>) + Count(inbox["rB"], EnvAliceBob(text))
       <= Cardinality(RowsFromTo("alice", "alice", "bob"))

\* an envelope for bob at the head of rB's queue is written to bob's session, unless bob
\* has left
S1_Arrives(text) ==
    \A k \in 0..MaxMsgs :
       (/\ inbox["rB"] # <<>> /\ Head(inbox["rB"]) = EnvAliceBob(text)
        /\ Count(pushed[2], <<"MESSAGE", "alice", text>>) = k)
       ~> (Count(pushed[2], <<"MESSAGE", "alice", text>>) > k \/ local["rB"]["bob"] # 2)

\* C1: in S1, when alice sends a line (and the publish reaches the channel) the message is
\* persisted in the conversation of alice and bob, alice is answered SENT:Message
\* delivered, nothing is written directly and one envelope is published; rB's listener
\* writes MESSAGE:alice:<text> to bob's session once and rA's listener writes nothing, so
\* bob receives the line, and never more often than alice sent it.
C1_CrossReplicaDelivery ==
    /\ [][\A text \in Texts : S1_Send(text) /\ S1_Relay(text)]_vars
    /\ [](\A text \in Texts : S1_AtMostOnce(text))
    /\ \A text \in Texts : S1_Arrives(text)

\* alice sent "hi", was told it was delivered, and bob's session holds the line once
C1_Witness ==
    /\ last.s = 1 /\ last.op = "private" /\ last.lines = << <<"SENT", "Message delivered">> >>
    /\ Len(messages) = 1 /\ messages[1].sender = "alice"
    /\ convs[messages[1].conv] = <<1, 2>>
    /\ pushed[2] = << <<"MESSAGE", "alice", "hi">> >>
    /\ pushed[1] = <<>>
    /\ inbox["rA"] = <<>> /\ inbox["rB"] = <<>>

(***************************************************************************)
(* Scenario S6, under Spec: the group's members are alice, bob and carol;  *)
(* alice (session 1) is connected to rA, bob (2) and carol (3) to rB.      *)
(***************************************************************************)
\* the envelope rA publishes for alice's group line to member t
EnvGroup(t, text) ==
    [target_username |-> t, message |-> <<"GROUP_MESSAGE", GroupName, "alice", text>>,
     sender_server_id |-> "rA"]

\* alice is in GroupChat on rA only, bob and carol are online on rB
S6_Ready ==
    /\ pc[1] = "GroupChat" /\ user[1] = "alice"
    /\ Range(members[1]) = {"alice", "bob", "carol"}
    /\ local["rA"]["alice"] = 1 /\ local["rB"]["alice"] = NoSession
    /\ local["rB"]["bob"] = 2 /\ local["rB"]["carol"] = 3
    /\ local["rA"]["bob"] = NoSession /\ local["rA"]["carol"] = NoSession
    /\ Online("bob") /\ Online("carol")

\* the send step of S6 (the publishes reach the channel)
S6_Send(text) ==
    (S6_Ready /\ GroupSend(1, text, {})) =>
       /\ gmsgs' = Append(gmsgs, [sender |-> "alice", text |-> text, ts |-> Now])
       /\ last'.s = 1 /\ last'.lines = << <<"GROUP_SENT", "Message sent to group">> >>
       /\ pushed' = pushed
       /\ \A q \in Replicas :
             /\ Len(NewEnvelopes(q)) = 2
             /\ \A t \in {"bob", "carol"} : Count(NewEnvelopes(q), EnvGroup(t, text)) = 1

\* the listeners' steps of S6: rB writes the line once to the member's session and to no
\* other, rA writes nothing
S6_Relay(text) ==
    \A t \in {"bob", "carol"} :
       /\ (Listen("rB") /\ Head(inbox["rB"]) = EnvGroup(t, text) /\ local["rB"][t] # NoSession) =>
             \A x \in Sessions :
                NewLines(x) = IF x = local["rB"][t]
                              THEN << <<"GROUP_MESSAGE", GroupName, "alice", text>> >> ELSE <<>>
       /\ (Listen("rA") /\ Head(inbox["rA"]) = EnvGroup(t, text)) => pushed' = pushed

\* the rows of group_messages a user wrote
GroupRowsOf(u) == {i \in DOMAIN gmsgs : gmsgs[i].sender = u}

\* no session of the poster holds a GROUP_MESSAGE of the poster's own; a session of another
\* member holds, written or on its way, at most one per row the poster wrote
S6_AtMostOnce(text) ==
    \A a \in Users, x \in Sessions :
       LET line == <<"GROUP_MESSAGE", GroupName, a, text>>
           r == ReplicaOf[x]
           coming == {j \in DOMAIN inbox[r] :
                         /\ inbox[r][j].target_username = user[x]
                         /\ inbox[r][j].message = line
                         /\ inbox[r][j].sender_server_id # r}
       IN IF user[x] = a THEN Count(pushed[x], line) = 0
          ELSE user[x] # NoUser =>
                  Count(pushed[x], line) + Cardinality(coming) <= Cardinality(GroupRowsOf(a))

\* C6: in S6, when alice posts a line (and the publishes reach the channel) the row is
\* persisted, alice is answered GROUP_SENT:Message sent to group, nothing is written
\* directly (to alice's own session in particular) and one envelope each is published for
\* bob and for carol; rB's listener writes GROUP_MESSAGE:<groupName>:alice:<text> once to
\* the member's session, rA's listener writes nothing; no poster ever holds its own group
\* line and no member holds a line more often than it was posted.
C6_GroupFanOut ==
    /\ [][\A text \in Texts : S6_Send(text) /\ S6_Relay(text)]_vars
    /\ [](\A text \in Texts : S6_AtMostOnce(text))

\* alice posted "hi": bob's and carol's sessions hold the line once, alice's holds none
C6_Witness ==
    /\ last.s = 1 /\ last.op = "group"
    /\ last.lines = << <<"GROUP_SENT", "Message sent to group">> >>
    /\ Len(gmsgs) = 1 /\ gmsgs[1].sender = "alice"
    /\ pushed[2] = << <<"GROUP_MESSAGE", "G", "alice", "hi">> >>
    /\ pushed[3] = << <<"GROUP_MESSAGE", "G", "alice", "hi">> >>
    /\ user[3] = "carol"
    /\ pushed[1] = <<>>
    /\ inbox["rA"] = <<>> /\ inbox["rB"] = <<>>

(***************************************************************************)
(* Scenario S2, under SpecPair.                                            *)
(***************************************************************************)
\* the send step of S2: the recipient is not online
S2_Send(s) ==
    \A text \in Texts, pubOk \in BOOLEAN :
       (PrivateSend(s, text, pubOk) /\ ~Online(peer[s])) =>
          /\ Len(messages') = Len(messages) + 1
          /\ Len(messages') \in {i \in DOMAIN messages' :
                                   /\ messages'[i].sender = user[s] /\ messages'[i].text = text
                                   /\ Range(convs[messages'[i].conv])
                                         = {UserId[user[s]], UserId[peer[s]]}}
          /\ Len(last'.calls) = 1 /\ ~last'.calls[1].ret
          /\ last'.lines = << <<"SENT", "Message saved (recipient offline)">> >>
          /\ pushed' = pushed /\ inbox' = inbox

\* the step in which a user opens the conversation with a contact: the block sent starts
\* with CONVERSATION_START:<contact>, ends with CONVERSATION_READY and holds in between
\* a line for every message of the two (as long as they are no more than the 50 that
\* get_conversation_messages reads)
S2_Open(s) ==
    \A name \in Users :
       (ContactsSelect(s, name) /\ name # user[s]) =>
          LET rows == RowsFromTo(name, name, user[s]) \cup RowsFromTo(user[s], name, user[s])
              block == last'.lines
          IN /\ block[1] = <<"CONVERSATION_START", name>>
             /\ block[Len(block)] = <<"CONVERSATION_READY">>
             /\ Cardinality(rows) <= HistoryLimit =>
                   \A i \in rows :
                      \E j \in 2..(Len(block) - 1) :
                         /\ block[j][2] = messages[i].sender
                         /\ block[j][3] = messages[i].text

\* C7: a private message sent while its recipient is not online is persisted in the
\* conversation of the two, send_to_user returns False and the sender is answered
\* SENT:Message saved (recipient offline); whenever a user opens the conversation with a
\* contact, the block between CONVERSATION_START:<contact> and CONVERSATION_READY holds a
\* line with the sender and the text of every message of that conversation.
C7_OfflineHistory ==
    [][\A s \in Sessions : S2_Send(s) /\ S2_Open(s)]_vars

\* alice wrote bob "hi" before bob's login; bob has opened the conversation with alice and
\* was sent the line
C7_Witness ==
    /\ Len(messages) = 1 /\ messages[1].sender = "alice"
    /\ Len(dbSessions) = 2 /\ dbSessions[2].user = "bob" /\ messages[1].ts < dbSessions[2].ts
    /\ last.s = 2 /\ last.op = "open_private"
    /\ last.lines = << <<"CONVERSATION_START", "alice">>, <<"[2]", "alice", "hi">>,
                       <<"CONVERSATION_READY">> >>
    /\ pushed[2] = <<>>

(***************************************************************************)
(* Properties of the presence operations, under SpecPresence.              *)
(***************************************************************************)
\* u is in exactly one of the two locations
OneSided(u) == (u \in onlineSet) # (onlineKey[u] # NoKey)

Quiescent == \A e \in Enqueuers : epc[e] = "idle"

\* C10 as stated: the pending list holds at most 100 entries in every reachable state,
\* the states inside save_pending_message included.
C10_CapAlways == Len(pending[PendUser]) <= PendingCap

\* C10 as amended: the list holds the most recently pushed messages in the order pushed;
\* it holds at most 100 of them (all of them while fewer than 100 were pushed) whenever no
\* save_pending_message call is in progress, and at most 100 plus one per call in progress
\* otherwise.
C10_CapWhenQuiescent ==
    LET q == pending[PendUser] IN
    /\ \A i \in DOMAIN q : q[i] = enq - Len(q) + i
    /\ Quiescent => Len(q) = (IF enq <= PendingCap THEN enq ELSE PendingCap)
    /\ Len(q) <= PendingCap + Cardinality({e \in Enqueuers : epc[e] # "idle"})

\* more than 100 messages were pushed, every call has returned: the list is the last 100
C10_Witness ==
    /\ Quiescent /\ enq > PendingCap
    /\ Len(pending[PendUser]) = PendingCap
    /\ pending[PendUser][1] = enq - PendingCap + 1


(***************************************************************************)
(* Properties of reconnection, under SpecResume.                           *)
(***************************************************************************)
\* session:<tok> exists
LiveToken(tok) == tok \in DOMAIN tokens /\ tokens[tok].live

\* a step in which session s sends RESUME_SESSION:<tok> for a live token
ResumeHit(s, tok) == Resume(s, tok) /\ LiveToken(tok)

\* a step in which session s sends RESUME_SESSION:<tok> for an expired or unknown token
ResumeMiss(s, tok) == Resume(s, tok) /\ ~LiveToken(tok)

\* line a is directly followed by line b
Adjacent(lines, a, b) == \E i \in 1..(Len(lines) - 1) : lines[i] = a /\ lines[i + 1] = b

\* the lines of a step without the AUTH_REQUEST a connection starts with
Reply(lines) == IF lines # <<>> /\ Head(lines) = <<"AUTH_REQUEST">> THEN Tail(lines) ELSE lines

\* C11: a successful resume leaves the user's pending list empty; the list stays empty
\* until save_pending_message is called for the user; and a resume with a live token that
\* finds the list empty succeeds and reports PENDING_MESSAGES_START:0 directly followed
\* by PENDING_MESSAGES_END.  Hence a second resume with the same token, with no enqueue
\* in between, reports zero pending messages.
C11_ResumeIdempotent ==
    [][/\ \A s \in Sessions : \A tok \in 1..(Len(tokens) + 1) :
             ResumeHit(s, tok) =>
                LET u == tokens[tok].username IN
                /\ pending'[u] = <<>>
                /\ pending[u] = <<>> =>
                      /\ pc'[s] = "Menu" /\ user'[s] = u
                      /\ Adjacent(last'.lines, <<"PENDING_MESSAGES_START", "0">>,
                                  <<"PENDING_MESSAGES_END">>)
       /\ \A u \in Users :
             (pending[u] = <<>> /\ pending'[u] # <<>>) => SavePendingMessage(u)]_vars

\* alice logged in on session 1 (token 1), one message was enqueued for her, session 2
\* resumed with token 1 and drained it, session 3 resumed with token 1 next: zero pending
C11_Witness ==
    /\ budget = MaxResumeSteps - 4 /\ enq = 1 /\ Len(tokens) = 1
    /\ rtoken = <<1, 1, 1>> /\ user = <<"alice", "alice", "alice">>
    /\ pending["alice"] = <<>>
    /\ last.s = 3 /\ last.op = "resume"
    /\ Adjacent(last.lines, <<"PENDING_MESSAGES_START", "0">>, <<"PENDING_MESSAGES_END">>)

\* the lines "PENDING_MSG:<content>" of a list, by position
PendingMsgLines(q) == [i \in 1..Len(q) |-> <<"PENDING_MSG", q[i].content>>]

\* C12: a resume with a live token writes exactly SESSION_RESUMED:<msg>, SESSION_TOKEN:<the
\* token sent>, PENDING_MESSAGES_START:<n>, the n lines PENDING_MSG:<content> of the user's
\* pending list in the order enqueued, PENDING_MESSAGES_END (also when n = 0), then the
\* main menu; no other thread writes to the session meanwhile, and the session is in Menu
\* as the user recorded for the token.  A pending list is always in enqueue order.
C12_ResumeFraming ==
    [][/\ \A s \in Sessions : \A tok \in 1..(Len(tokens) + 1) :
             ResumeHit(s, tok) =>
                LET u == tokens[tok].username
                    q == pending[u]
                IN /\ Reply(last'.lines) =
                         << <<"SESSION_RESUMED", "Welcome back, " \o u \o "!">>,
                            <<"SESSION_TOKEN", ToString(tok)>>,
                            <<"PENDING_MESSAGES_START", ToString(Len(q))>> >>
                         \o PendingMsgLines(q)
                         \o << <<"PENDING_MESSAGES_END">>,
                               <<"MAIN_MENU_START">>, <<"MAIN_MENU_END">> >>
                   /\ pushed'[s] = <<>>
                   /\ pc'[s] = "Menu" /\ user'[s] = u /\ rtoken'[s] = tok
       /\ \A u \in Users : \A i, j \in DOMAIN pending'[u] :
             i < j => pending'[u][i].timestamp < pending'[u][j].timestamp]_vars

\* alice logged in (token 1), two messages were enqueued for her, session 3 resumed
C12_Witness ==
    /\ last.s = 3 /\ last.op = "resume" /\ pc[3] = "Menu" /\ user[3] = "alice"
    /\ last.lines = << <<"AUTH_REQUEST">>,
                       <<"SESSION_RESUMED", "Welcome back, alice!">>,
                       <<"SESSION_TOKEN", "1">>,
                       <<"PENDING_MESSAGES_START", "2">>,
                       <<"PENDING_MSG", "m1">>, <<"PENDING_MSG", "m2">>,
                       <<"PENDING_MESSAGES_END">>,
                       <<"MAIN_MENU_START">>, <<"MAIN_MENU_END">> >>

\* C13: a resume with an unknown or expired token is answered AUTH_FAILED:Invalid or
\* expired session and nothing else, leaves the session in Auth, unauthenticated, and
\* changes no presence record, no durable session, no token and no pending list.
C13_ResumeMiss ==
    [][\A s \in Sessions : \A tok \in 1..(Len(tokens) + 1) :
          ResumeMiss(s, tok) =>
             /\ Reply(last'.lines) = << <<"AUTH_FAILED", "Invalid or expired session">> >>
             /\ pc'[s] = "Auth" /\ user'[s] = NoUser /\ sessId'[s] = 0 /\ rtoken'[s] = 0
             /\ UNCHANGED <<onlineSet, onlineKey, local, dbSessions, tokens, userSession,
                            pending>>]_vars

\* alice logged in on session 1, a message was enqueued for her, her token expired;
\* session 2 sent RESUME_SESSION and was refused; alice's presence, her durable session and
\* her pending list are as they were
C13_Witness ==
    /\ last.s = 2 /\ last.op = "resume" /\ pc[2] = "Auth" /\ user[2] = NoUser
    /\ Len(tokens) = 1 /\ ~tokens[1].live
    /\ Len(pending["alice"]) = 1
    /\ onlineKey["alice"] = "rA" /\ "alice" \in onlineSet /\ local["rA"]["alice"] = 1
    /\ Len(dbSessions) = 1 /\ dbSessions[1].active

\* C14: the TTL of a resume token is not shorter than the TTL of a presence detail key;
\* and a resume with a live token of a user whose detail key has expired succeeds: the
\* session is in Menu as that user, the user is online again (set and detail key, the key
\* naming the resuming replica) and in the resuming replica's local map, and every message
\* of the user's pending list is sent in the PENDING_MESSAGES block.
C14_ResumeOutlivesPresence ==
    /\ SessionTtl >= PresenceTtl
    /\ [][\A s \in Sessions : \A tok \in 1..(Len(tokens) + 1) :
             (ResumeHit(s, tok) /\ onlineKey[tokens[tok].username] = NoKey) =>
                LET u == tokens[tok].username
                    q == pending[u]
                    r == ReplicaOf[s]
                IN /\ pc'[s] = "Menu" /\ user'[s] = u
                   /\ onlineKey'[u] = r /\ u \in onlineSet' /\ local'[r][u] = s
                   /\ \E i \in DOMAIN last'.lines :
                         /\ last'.lines[i] = <<"PENDING_MESSAGES_START", ToString(Len(q))>>
                         /\ \A j \in DOMAIN q :
                               last'.lines[i + j] = <<"PENDING_MSG", q[j].content>>
                         /\ last'.lines[i + Len(q) + 1] = <<"PENDING_MESSAGES_END">>]_vars

\* alice logged in on rA (session 1, still connected), a message was enqueued for her, her
\* detail key expired; session 3 resumed on rB with her token and got the message
C14_Witness ==
    /\ budget = MaxResumeSteps - 4 /\ enq = 1
    /\ pc[1] = "Menu" /\ user[1] = "alice" /\ pc[2] = "Idle"
    /\ last.s = 3 /\ last.op = "resume" /\ user[3] = "alice"
    /\ onlineKey["alice"] = "rB" /\ "alice" \in onlineSet /\ local["rB"]["alice"] = 3
    /\ Adjacent(last.lines, <<"PENDING_MESSAGES_START", "1">>, <<"PENDING_MSG", "m1">>)
    /\ Adjacent(last.lines, <<"PENDING_MSG", "m1">>, <<"PENDING_MESSAGES_END">>)

(***************************************************************************)
(* Properties of the end of a session, under SpecResume.                   *)
(***************************************************************************)
\* a step in which session s, authenticated, leaves by the line "bye"
ByeStep(s) == MenuQuit(s, "bye\n")

\* a step in which session s, authenticated, ends on a closed socket or a connection reset
LostStep(s) == user[s] # NoUser /\ (MenuQuit(s, Eof) \/ IoError(s))

\* C15 as stated: when an authenticated session is closed by "bye", its resume token is
\* revoked (session:<token>, user_session:<user> and pending_messages:<user> are gone), so
\* a later RESUME_SESSION with it is refused; when it is closed by EOF or an I/O error,
\* the token and the pending list are kept.
C15_ByeRevokesToken ==
    [][\A s \in Sessions :
          /\ ByeStep(s) =>
                /\ ~LiveToken(rtoken[s])'
                /\ userSession'[user[s]] # rtoken[s]
                /\ pending'[user[s]] = <<>>
          /\ LostStep(s) => UNCHANGED <<tokens, userSession, pending>>]_vars

\* C16: when an authenticated session reaches Closed (bye, a blank line, EOF or an I/O
\* error), its durable session row is ended, no local map holds the session, and the
\* user's presence (set member and detail key) is removed from the Coordinator; a closed
\* session is in no local map afterwards either.
C16_CleanupOnClosed ==
    [][\A s \in Sessions :
          /\ (pc[s] # "Closed" /\ pc'[s] = "Closed" /\ user[s] # NoUser) =>
                /\ sessId[s] \in DOMAIN dbSessions' /\ ~dbSessions'[sessId[s]].active
                /\ onlineKey'[user[s]] = NoKey /\ user[s] \notin onlineSet'
          /\ pc'[s] = "Closed" => \A r \in Replicas, u \in Users : local'[r][u] # s]_vars

\* alice logged in on session 1; the connection was reset; everything of hers is cleaned up
C16_Witness ==
    /\ last.s = 1 /\ last.op = "ioerror" /\ pc[1] = "Closed" /\ user[1] = "alice"
    /\ sessId[1] = 1 /\ ~dbSessions[1].active
    /\ local["rA"]["alice"] = NoSession /\ onlineKey["alice"] = NoKey /\ "alice" \notin onlineSet

\* C18 as stated: a session reaches Closed only by the line "bye", by EOF or by an I/O
\* error.
C18_ClosedOnlyOnByeEofError ==
    [][\A s \in Sessions :
          (pc[s] # "Closed" /\ pc'[s] = "Closed") =>
             /\ last'.s = s
             /\ last'.op \in {"bye", "eof", "ioerror"}]_vars

\* a step in which session s, in Menu, reads the line
MenuRead(s, line) == MenuInvalid(s, line) \/ MenuQuit(s, line)

\* the tokens the menu accepts
MenuTokens == {"1", "2", "3", "4", "5", "bye"}

\* C19: when a session in Menu reads a line whose token is none of 1, 2, 3, 4, 5, bye, it
\* writes INVALID_OPTION:Invalid menu option and the main menu block again, stays in Menu,
\* and changes nothing of presence, tokens, pending lists or persistence.
C19_MenuValidation ==
    [][\A s \in Sessions : \A line \in ClientLines :
          (Strip(line) # "" /\ Strip(line) \notin MenuTokens /\ MenuRead(s, line)) =>
             /\ last'.s = s
             /\ last'.lines = << <<"INVALID_OPTION", "Invalid menu option">>,
                                 <<"MAIN_MENU_START">>, <<"MAIN_MENU_END">> >>
             /\ pc'[s] = "Menu"
             /\ UNCHANGED <<user, sessId, rtoken, local, onlineSet, onlineKey, tokens,
                            userSession, pending, dbSessions, convs, messages, bcasts,
                            gmsgs, gmembers, gactive, pushed, inbox>>]_vars

\* alice, in Menu, sent a line that is no option: she is still in Menu, online
C19_Witness ==
    /\ last.s = 1 /\ last.op = "invalid" /\ pc[1] = "Menu" /\ user[1] = "alice"
    /\ local["rA"]["alice"] = 1 /\ onlineKey["alice"] = "rA" /\ "alice" \in onlineSet
    /\ dbSessions[1].active

\* C20 as stated: in Menu and in Contacts the line "bye" closes the session instead of
\* being looked up as a contact; in PrivateChat, Broadcast and GroupChat the line "bye" is
\* persisted as a message and the session stays in the chat.
C20_ByeByState ==
    [][\A s \in Sessions :
          /\ (MenuQuit(s, "bye\n") \/ ContactsSelect(s, "bye")) =>
                /\ pc'[s] = "Closed"
                /\ last'.lines = <<>>
          /\ (\E pubOk \in BOOLEAN : PrivateSend(s, "bye", pubOk)) =>
                /\ pc'[s] = "PrivateChat"
                /\ messages'[Len(messages')].text = "bye"
          /\ (\E failed \in SUBSET Users : BroadcastSend(s, "bye", failed)) =>
                /\ pc'[s] = "Broadcast"
                /\ bcasts'[Len(bcasts')].text = "bye"
          /\ (\E failed \in SUBSET Users : GroupSend(s, "bye", failed)) =>
                /\ pc'[s] = "GroupChat"
                /\ gmsgs'[Len(gmsgs')].text = "bye"]_vars

(***************************************************************************)
(* Disconnection, under SpecDisconnect.                                    *)
(***************************************************************************)
\* C17 as stated: once the client socket of a session is at EOF, the session eventually
\* reaches Closed, from whatever state it is in.
C17_DisconnectionCloses ==
    \A s \in PairSessions : (s \in eof) ~> (pc[s] = "Closed")

(***************************************************************************)
(* The scaling controller, under SpecScaler.                               *)
(***************************************************************************)
\* the least q with q * b >= a: the ceiling of a / b
LeastCover(a, b) == CHOOSE q \in 0..a : q * b >= a /\ \A k \in 0..(q - 1) : k * b < a

\* x brought into lo..hi, for lo <= hi
ClampTo(x, lo, hi) == IF x < lo THEN lo ELSE IF x > hi THEN hi ELSE x

\* an iteration that read the deployment
ReadTick == tick.current # None

\* C21: the desired replica count an iteration computes from users online users is
\* minReplicas when users = 0 and, when minReplicas <= maxReplicas and users >= 1, the
\* ceiling of users / usersPerPod brought into minReplicas..maxReplicas; with
\* minReplicas <= maxReplicas it lies in that range, and so does every replica count the
\* controller patches to.
C21_DesiredReplicas ==
    ReadTick =>
        /\ tick.users = 0 => tick.desired = config.min_replicas
        /\ config.min_replicas <= config.max_replicas =>
              /\ tick.users >= 1 =>
                    tick.desired = ClampTo(LeastCover(tick.users, config.users_per_pod),
                                           config.min_replicas, config.max_replicas)
              /\ tick.desired \in config.min_replicas..config.max_replicas
              /\ tick.patch # None => tick.patch \in config.min_replicas..config.max_replicas

\* the controller with the default parameters reads 31 users, 11 pods' worth, and patches
\* to the maximum
C21_Witness ==
    /\ config = DefaultConfig /\ tick.users = 31
    /\ tick.desired = 10 /\ tick.patch = 10 /\ replicas = 10

\* C22: an iteration that finds desired > current patches the deployment to desired in
\* that same iteration, whatever it observed before, and the deployment has that count
\* unless the API refused the patch; with the default parameters, 1 replica and 7 users
\* online it patches to 3.
C22_ScaleUpImmediate ==
    [][NextScaler =>
          /\ (tick'.current # None /\ tick'.desired > tick'.current) =>
                /\ tick'.patch = tick'.desired
                /\ tick'.ok => replicas' = tick'.desired
          /\ (config = DefaultConfig /\ tick'.current = 1 /\ tick'.users = 7) =>
                tick'.patch = 3]_vars

\* scenario S4, and a scale-up in an iteration that follows a pending scale-down
C22_Witness ==
    /\ config = DefaultConfig /\ tick.current = 1 /\ tick.users = 7
    /\ tick.patch = 3 /\ tick.ok /\ replicas = 3

\* an iteration that finds desired < current
DownTick == tick'.current # None /\ tick'.desired < tick'.current

\* an iteration that reads another (current, desired) than the iteration before it that
\* could read the deployment
NewlyObserved == observed' # observed

\* C23 as stated: an iteration that finds desired < current does not patch when it is the
\* first to observe that situation, and patches only when that same desired value has been
\* observed on every iteration for at least scaleDownDelay seconds.
C23_ScaleDownDebounce ==
    [][(NextScaler /\ DownTick) =>
          /\ NewlyObserved => tick'.patch = None
          /\ tick'.patch # None => clock - observed'.since >= config.scale_down_delay]_vars

\* C24 as stated: an iteration that finds desired < current after another desired value
\* was observed starts the wait for (current -> desired) at its own time, and an iteration
\* that finds desired = current leaves no pending timer.
C24_ChangeResetsTimer ==
    [][NextScaler =>
          /\ (DownTick /\ NewlyObserved) =>
                /\ <<tick'.current, tick'.desired>> \in DOMAIN last_scale_down_check'
                /\ last_scale_down_check'[<<tick'.current, tick'.desired>>] = clock
          /\ (tick'.current # None /\ tick'.desired = tick'.current) =>
                last_scale_down_check' = NoChecks]_vars

\* C25 as stated: an iteration that cannot read the replica count patches nothing, and
\* the iteration after a refused patch, when it reads the same user count and the same
\* replica count, attempts that patch again.
C25_ApiErrorRetried ==
    [][NextScaler =>
          /\ tick'.current = None => (tick'.patch = None /\ replicas' = replicas)
          /\ (tick.patch # None /\ ~tick.ok
                /\ tick'.current = tick.current /\ tick'.users = tick.users) =>
                tick'.patch = tick.patch]_vars

(***************************************************************************)
(* Replica shutdown, under SpecShutdown.                                   *)
(***************************************************************************)
\* C26 as stated: once a replica has been shut down, no user that was connected to it is
\* still reported online: removeOnline was performed for every user of its LocalPresence.
C26_ShutdownDeregisters ==
    \A r \in Replicas :
        Down(r) => \A u \in Users : ~(u \in onlineSet /\ onlineKey[u] = r)

(***************************************************************************)
(* LocalPresence of a user with two connections, under SpecReconnect.      *)
(***************************************************************************)
\* connection s authenticates as u in this step (LOGIN or RESUME_SESSION)
Authenticates(s, u) == pc[s] \in {"Idle", "Auth"} /\ pc'[s] = "Menu" /\ user'[s] = u

\* connection x is the one registered for its user on its replica
Registered(x) == user[x] # NoUser /\ local[ReplicaOf[x]][user[x]] = x

\* connection x authenticated as a user whose entry now names another connection
Displaced(x) ==
    /\ user[x] # NoUser /\ pc[x] # "Closed"
    /\ local[ReplicaOf[x]][user[x]] \notin {x, NoSession}

\* C27: a replica's LocalPresence maps a username to one session; a connection that
\* authenticates as a user takes the user's entry on its replica, also when another
\* connection held it, and every line send_to_user or the subscriber loop writes to a
\* session is written to the session registered for its user at that time, never to a
\* displaced one.
C27_OneSessionPerUser ==
    [][/\ \A s \in Sessions : \A u \in Users :
             Authenticates(s, u) => local'[ReplicaOf[s]][u] = s
       /\ \A x \in Sessions : pushed'[x] # pushed[x] => Registered(x)]_vars

\* bob is connected twice on rB; connection 3 came second and holds the entry, and a
\* message sent after that was written to it and not to connection 2
C27_Witness ==
    /\ user[2] = "bob" /\ user[3] = "bob" /\ Displaced(2)
    /\ local["rB"]["bob"] = 3
    /\ pushed[3] # <<>> /\ pushed[2] = <<>>

(***************************************************************************)
(* Conversations, under SpecConv.                                          *)
(***************************************************************************)
\* the rows of conversations whose participants are a and b, in either order
RowsOfPair(a, b) == {i \in DOMAIN convs : {convs[i][1], convs[i][2]} = {a, b}}

\* a call of connection s has returned
Returned(s) == getconv[s].pc = "idle" /\ getconv[s].ret # 0

C29_GroupDeactivation ==
    /\ [](gmembers = <<>> => ~gactive)
    /\ [][\A u \in Users :
             /\ (LeaveCommit(u) /\ gmembers' = <<>>) => ~gactive'
             /\ ~gactive =>
                   /\ Len(gmembers') <= Len(gmembers)
                   /\ JoinCheck(u) => grptx'[u].ret # "Successfully joined group"
                   /\ (GetGroupInfo(u) \/ GetAllGroups(u) \/ GetUserGroups(u)) =>
                         grptx'[u].ret = "None"]_vars

(***************************************************************************)
(* Pending messages and presence, under SpecResume.                        *)
(***************************************************************************)
\* C30 as stated: in every state a user whose pending list is not empty has no
\* LocalPresence on any replica, and a connection that authenticates as u (LOGIN or
\* RESUME_SESSION) leaves u's pending list drained when it registers u.
C30_PendingOnlyWhileDisconnected ==
    /\ [](\A u \in Users :
             pending[u] # <<>> => \A r \in Replicas : local[r][u] = NoSession)
    /\ [][\A s \in Sessions : \A u \in Users :
             Authenticates(s, u) => pending'[u] = <<>>]_vars

(***************************************************************************)
(* Atomicity of add_online_user, under SpecWriters.                        *)
(***************************************************************************)
\* caller w has written the detail key of u and not yet added u to the set
MidAdd(w, u) == wpc[w] = "add_sadd" /\ warg[w].u = u

\* C31 as stated: when no add_online_user or remove_online_user call is in progress,
\* every user has both the detail key and the membership of online_users or neither; and
\* between the write of a user's detail key and the insertion into the set no other
\* caller removes or adds the user and no reader reads the user's presence.
C31_AddOnlineAtomic ==
    /\ []((\A w \in Writers : wpc[w] = "idle") => \A u \in PresUsers : ~OneSided(u))
    /\ [][\A w \in Writers : \A u \in PresUsers :
             (MidAdd(w, u) /\ MidAdd(w, u)') =>
                 /\ onlineKey'[u] = onlineKey[u]
                 /\ (u \in onlineSet') = (u \in onlineSet)
                 /\ ~CallIsUserOnline(u) /\ ~CallGetOnlineUsernames]_vars

(***************************************************************************)
(* Atomicity of get_pending_messages(clear=True), under SpecDrain.         *)
(***************************************************************************)
\* how many times the calls of get_pending_messages returned message n
TimesReturned(n) == Count(drain[1].ret, n) + Count(drain[2].ret, n)

\* message n is in what a call in progress has fetched and will return
BeingReturned(n) == \E d \in Drainers : drain[d].pc = "delete" /\ n \in Range(drain[d].got)

\* C32 as stated: of the messages enqueued, none is returned by two drains (or twice), and
\* none is gone from the list without having been returned by a drain or being in what a
\* drain in progress returns.
C32_DrainAtomic ==
    \A n \in 1..enq :
        /\ TimesReturned(n) <= 1
        /\ n \notin Range(pending[PendUser]) => (TimesReturned(n) >= 1 \/ BeingReturned(n))

(***************************************************************************)
(* Exclusion on one session's writer, under SpecWriter.                    *)
(***************************************************************************)
\* the threads between the write and the flush of a line
InWrite == {t \in WThreads : wthr[t].pc = "flush"}

\* how many lines of the handler precede line j on the writer
HandlerLinesBefore(j) == Cardinality({i \in 1..(j - 1) : wire[i].by = "handler"})

\* C33 as stated: at no time are two threads between the write and the flush of a line on
\* the same writer, and no line pushed by another thread stands between the lines of a
\* frame of the handler.
C33_WriterExclusion ==
    /\ Cardinality(InWrite) <= 1
    /\ \A j \in DOMAIN wire :
           wire[j].by # "handler" => HandlerLinesBefore(j) % Len(HistoryFrame) = 0

(***************************************************************************)
(* Commit order and confirmations of private messages, under SpecOrder.    *)
(***************************************************************************)
\* the place of message n among the committed rows (0: not committed)
CommitPos(n) == IF n \in Range(committed) THEN CHOOSE i \in DOMAIN committed : committed[i] = n ELSE 0

\* C34 as stated: the committed messages whose MESSAGE lines were written to the local
\* recipient's session were written in the order in which they were committed.
C34_CommitOrder ==
    \A i, j \in DOMAIN wire :
        (i < j /\ CommitPos(wire[i].line[2]) > 0 /\ CommitPos(wire[j].line[2]) > 0)
            => CommitPos(wire[i].line[2]) < CommitPos(wire[j].line[2])

\* the confirmations that open with SENT:
SentLines == {"SENT:Message delivered", "SENT:Message saved (recipient offline)"}

\* C35 as stated: every SENT: confirmation a sender got is for a committed message (a
\* message whose save failed is answered by a line that is not a SENT: confirmation), and
\* the handler goes on in the loop of chat_with_contact.
C35_FailureSurfaced ==
    \A t \in Senders : \A k \in DOMAIN sthr[t].out :
        sthr[t].out[k].line \in SentLines => sthr[t].out[k].msg \in Range(committed)

(***************************************************************************)
(* Recipients of a group message, under SpecMembers.                       *)
(***************************************************************************)
\* the users send_to_user was called for in the step, and those it returned True for
CalledFor(step) == {step.calls[i].target : i \in DOMAIN step.calls}
HandedTo(step) == {step.calls[i].target : i \in {k \in DOMAIN step.calls : step.calls[k].ret}}

\* C36 as stated: when a group message is posted, the GROUP_MESSAGE line is handed only to
\* users who are members of the group at that time, and every member at that time but the
\* sender is among the recipients, whatever the membership was when the sender entered
\* the group chat.
C36_RecipientsCurrent ==
    [][(last' # last /\ last'.op = "group") =>
          /\ HandedTo(last') \subseteq Range(gmembers)
          /\ (Range(gmembers) \ {user[last'.s]}) \subseteq CalledFor(last')]_vars

(***************************************************************************)
(* Presence of a user whose connection stays open, under Spec.             *)
(***************************************************************************)
\* C37 as stated: a user whose open session is the LocalPresence entry of its replica is
\* reported online by is_user_online for as long as the connection is open, however long
\* ago the login was (the TTL of the detail key never runs out under such a user).
C37_HeartbeatKeepsOnline ==
    \A s \in Sessions :
        (Registered(s) /\ pc[s] # "Closed") => IsUserOnline(user[s], onlineSet, onlineKey).ret

(***************************************************************************)
(* The closing of an earlier connection of a user, under SpecReconnect.    *)
(***************************************************************************)
\* session x closes in the step
Closes(x) == pc[x] # "Closed" /\ pc'[x] = "Closed"

\* C38 as stated: when a connection of user u closes while a newer open session y of u is
\* the LocalPresence entry of its replica and u is online in the Coordinator (the detail
\* key names y's replica: y registered last), then after the step y is still that entry
\* and u is still online.
C38_SuccessorStaysRegistered ==
    [][\A x, y \in Sessions :
          (/\ x # y /\ user[x] # NoUser /\ user[y] = user[x]
           /\ Registered(y) /\ pc[y] # "Closed"
           /\ IsUserOnline(user[y], onlineSet, onlineKey).ret
           /\ onlineKey[user[y]] = ReplicaOf[y]
           /\ Closes(x))
          => /\ local'[ReplicaOf[y]][user[y]] = y
             /\ IsUserOnline(user[y], onlineSet', onlineKey').ret]_vars

(***************************************************************************)
(* The counts of the BROADCAST_SENT reply, under Spec.                     *)
(***************************************************************************)
\* how many send_to_user calls of the step were for user u
CallsFor(step, u) == Cardinality({i \in DOMAIN step.calls : step.calls[i].target = u})

\* C39 as stated: the reply to a broadcast is BROADCAST_SENT with m the number of users the
\* line was handed to and n the number of users online at the send other than the sender,
\* 0 <= m <= n; the sender is not sent its own line, and every counted user was handed
\* the line once.
C39_BroadcastCounts ==
    [][(last' # last /\ last'.op = "broadcast") =>
          LET sender == user[last'.s]
              m == Delivered(last'.calls)
              n == Cardinality(GetOnlineUsernames(onlineSet, onlineKey).ret \ {sender})
          IN /\ last'.lines = << BroadcastSent(m, n) >>
             /\ 0 <= m /\ m <= n
             /\ sender \notin CalledFor(last')
             /\ \A u \in HandedTo(last') : CallsFor(last', u) = 1]_vars

(***************************************************************************)
(* An iteration whose read of the online-user count fails, under           *)
(* SpecScaler.                                                             *)
(***************************************************************************)
\* C40 as stated: in an iteration whose SCARD online_users fails the controller patches
\* nothing and starts no scale-down timer (so no timer started or left running by such
\* iterations ever brings a patch).
C40_FailedCountNoChange ==
    [][(NextScaler /\ ~tick'.users_ok) =>
          /\ tick'.patch = None
          /\ replicas' = replicas
          /\ DOMAIN last_scale_down_check' \subseteq DOMAIN last_scale_down_check]_vars

=============================================================================
